---- MODULE Spec2Model ----
(***************************************************************************)
(* State-machine model of the camera capture components of the React       *)
(* frontend (react-frontend/src/components).  Each component is modelled   *)
(* by a record holding its useState/useRef values under the source's       *)
(* names; the browser side (media streams, pending getUserMedia promises,  *)
(* timers, HTTP requests in flight) is modelled by shared variables.       *)
(* Closures are modelled by value: a timer or promise continuation carries *)
(* the values of the render in which it was created.                       *)
(***************************************************************************)
EXTENDS Integers, Sequences, FiniteSets, TLC

VARIABLES
    comp,       \* which component the page has mounted in this run
    mounted,    \* TRUE until the component is unmounted
    tracks,     \* media stream id -> "unborn" | "live" | "stopped"
    gum,        \* pending navigator.mediaDevices.getUserMedia promises
    timers,     \* pending setTimeout callbacks, in firing order
    fetches,    \* HTTP requests in flight, with the closure of their caller
    requests,   \* every HTTP request body sent so far (observation)
    callbacks,  \* log of the parent callbacks invoked (onComplete, onCapture, onClose)
    basic,      \* BasicBiometricCapture state
    quick,      \* BiometricCapture state
    blobs,      \* pending canvas.toBlob callbacks (BiometricCapture), in order
    urls,       \* blob URL id -> "unborn" | "live" | "revoked"
    observeUrls, \* whether this run records the blob URLs (URL.createObjectURL ids)
    readers,    \* pending FileReader loads (BiometricCapture.registerBiometric)
    adv,        \* AdvancedBiometricCapture state
    rt,         \* RealTimeFaceDetection state
    runs,       \* calls of RealTimeFaceDetection.captureSmartphoneLikeFaces in flight
    dash,       \* MainDashboard state (tab, camera list, cameraStates, requests in flight)
    clips,      \* SecurityClips state (selected clip, processing markers, requests in flight)
    att,        \* Attendance page state (selection, monthlyData, requests in flight)
    api         \* inputs and calls of the image analysis functions (faceRecognitionAPI and the capture components)

vars == <<comp, mounted, tracks, gum, timers, fetches, requests, callbacks,
          basic, quick, blobs, urls, observeUrls, readers, adv, rt, runs, dash, clips, att, api>>

\* the state that belongs to the other components
notBasic == <<quick, blobs, urls, observeUrls, readers, adv, rt, runs, dash, clips, att, api>>
notQuick == <<basic, fetches, requests, observeUrls, adv, rt, runs, dash, clips, att, api>>
notAdv == <<basic, quick, blobs, urls, observeUrls, readers, requests, rt, runs, dash, clips, att, api>>
notRt == <<basic, quick, blobs, urls, observeUrls, readers, requests, adv, fetches, timers, dash, clips, att, api>>

(* ------------------------------ bounds -------------------------------- *)
\* media streams the browser hands out in one run
MaxStreams == 2
\* entries kept in the callback log (further calls leave the log as it is)
MaxLog == 2

\* blob URLs of one angle in existence at a time
MaxUrls == 2
\* canvas.toBlob callbacks pending at a time
MaxBlobs == 1
\* process-frame requests AdvancedBiometricCapture sends in one run
MaxFrames == 3
\* calls of captureSmartphoneLikeFaces in flight at a time
MaxRuns == 2

Streams == 1..MaxStreams
NoStream == 0
NoUrl == <<"", 0>>

(* ------------------------- strings as characters ---------------------- *)
\* JavaScript strings are sequences of one-character strings, so that the
\* conversions below are computed character by character as the code does.
UpperChars == <<"A", "D", "F", "L", "P", "R", "U">>
LowerChars == <<"a", "d", "f", "l", "p", "r", "u">>

IndexIn(c, table) ==
    IF \E i \in 1..Len(table) : table[i] = c
    THEN CHOOSE i \in 1..Len(table) : table[i] = c
    ELSE 0

\* String.prototype.toLowerCase
ToLowerCase(s) ==
    [i \in 1..Len(s) |->
        IF IndexIn(s[i], UpperChars) > 0 THEN LowerChars[IndexIn(s[i], UpperChars)] ELSE s[i]]

\* String.prototype.toUpperCase
ToUpperCase(s) ==
    [i \in 1..Len(s) |->
        IF IndexIn(s[i], LowerChars) > 0 THEN UpperChars[IndexIn(s[i], LowerChars)] ELSE s[i]]

\* String.prototype.replace(from, to) with a one-character string pattern:
\* only the first occurrence is replaced; to is a string (possibly empty).
ReplaceFirst(s, from, to) ==
    IF \E i \in 1..Len(s) : s[i] = from
    THEN LET k == CHOOSE i \in 1..Len(s) : s[i] = from /\ \A j \in 1..(i-1) : s[j] # from
         IN  SubSeq(s, 1, k-1) \o to \o SubSeq(s, k+1, Len(s))
    ELSE s

(* ------------------------ BasicBiometricCapture ------------------------ *)
\* the `angles` array: the name of each of the five guided steps
angles ==
    << <<"F","r","o","n","t","a","l">>,
       <<"L","e","f","t"," ","P","r","o","f","i","l","e">>,
       <<"R","i","g","h","t"," ","P","r","o","f","i","l","e">>,
       <<"U","p"," ","A","n","g","l","e">>,
       <<"D","o","w","n"," ","A","n","g","l","e">> >>

\* a label that ignores the step: angles[0].name.toLowerCase().replace(' ', '_')
CaptureAngleOfFirstStep(currentAngle) ==
    ReplaceFirst(ToLowerCase(angles[1]), " ", <<"_">>)

\* angles[currentAngle].name.toLowerCase().replace(' ', '_')   (0-based index)
CaptureAngle(currentAngle) ==
    ReplaceFirst(ToLowerCase(angles[currentAngle + 1]), " ", <<"_">>)

\* capture.angle.charAt(0).toUpperCase() + capture.angle.slice(1).replace('_', '')
AngleName(angle) ==
    ToUpperCase(SubSeq(angle, 1, 1)) \o ReplaceFirst(SubSeq(angle, 2, Len(angle)), "_", <<>>)

\* Array.prototype.slice(0, n)
Slice(s, n) == SubSeq(s, 1, IF Len(s) < n THEN Len(s) ELSE n)

\* the biometric_images object built by completeCapture: one key per angle name
BiometricImages(images) ==
    LET five == Slice(images, 5)
    IN  {AngleName(five[i].angle) : i \in 1..Len(five)}

\* the setCapturedImages updater of captureImage
AppendCapture(prev, newCapture) == Slice(Append(prev, newCapture), 5)

Log(entry) ==
    callbacks' = IF Len(callbacks) < MaxLog THEN Append(callbacks, entry) ELSE callbacks

\* a getUserMedia call whose promise is pending
GumRequest(kind) == [kind |-> kind, state |-> "pending", stream |-> NoStream]

\* the id of the next stream the browser creates (NoStream when none is free)
NextStream ==
    IF \E s \in Streams : tracks[s] = "unborn"
    THEN CHOOSE s \in Streams : tracks[s] = "unborn" /\ \A t \in Streams : tracks[t] = "unborn" => s <= t
    ELSE NoStream

BasicInitState ==
    [stream |-> NoStream, hasDims |-> FALSE, capturedImages |-> <<>>,
     currentAngle |-> 0, isCapturing |-> FALSE, alert |-> "none"]

(* ------------------------- the video element ---------------------------- *)
\* what the video element reports when a frame is taken: videoWidth and
\* videoHeight are 0 until the browser knows the size of the stream's frames
Videos == {[videoWidth |-> 0, videoHeight |-> 0], [videoWidth |-> 640, videoHeight |-> 480]}

\* a test that lets every frame pass
NeverZeroDimensions(video) == FALSE

\* video.videoWidth === 0 || video.videoHeight === 0
ZeroDimensions(video) == video.videoWidth = 0 \/ video.videoHeight = 0

(* ---------------------------- BiometricCapture -------------------------- *)
\* the `angles` array of BiometricCapture (keys of capturedImages)
QuickAngles == {"Center", "Left", "Right", "Up", "Down"}

NoImages == [a \in {} |-> [url |-> NoUrl]]

\* the null value of the `analysis` state
NullAnalysis == [null |-> TRUE]

\* blob URL ids: the angle they were created for and a number
Urls == QuickAngles \X (1..MaxUrls)

\* useState initial values; `effect` holds the values the registered cleanup
\* of the [stopCamera, capturedImages] effect closes over, metadataPending
\* tells whether the stream effect's loadedmetadata listener is still to fire
QuickInitState ==
    [employeeId |-> "", stream |-> NoStream, capturedImages |-> NoImages,
     analysis |-> NullAnalysis, isRegistering |-> FALSE, cameraError |-> "null",
     isVideoReady |-> FALSE,
     effect |-> [stream |-> NoStream, capturedImages |-> NoImages],
     metadataPending |-> FALSE]

(* ------------- AdvancedBiometricCapture, RealTimeFaceDetection ---------- *)
NoSession == 0
NoFrame == 0
\* data.session_id of the start-session response
SessionId == 1

\* useState initial values of AdvancedBiometricCapture.  sessionProgress and
\* currentAnalysis hold the number of the frame whose result they show;
\* processingInterval is the state of processingIntervalRef's interval;
\* metadataPending tells whether startCamera awaits onloadedmetadata;
\* framesSent counts the process-frame requests sent.
AdvInitState ==
    [stream |-> NoStream, sessionId |-> NoSession, isProcessing |-> FALSE,
     sessionProgress |-> NoFrame, currentAnalysis |-> NoFrame, isComplete |-> FALSE,
     message |-> "none", processingInterval |-> "none", metadataPending |-> FALSE,
     framesSent |-> 0]

\* useState initial values of RealTimeFaceDetection; detectFaces is the state
\* of the [stream] effect's analysis interval
\* the null value of the `analysisResults` state
NoResults == [null |-> TRUE]

\* useState initial values of RealTimeFaceDetection; detectFaces is the state
\* of the 50 ms interval.  detectionConfidence is counted in tenths.
RtInitState ==
    [stream |-> NoStream, detectFaces |-> "none", isCapturing |-> FALSE,
     faceDetected |-> FALSE, faceQuality |-> 0, detectionConfidence |-> 0,
     captureCount |-> 0, analysisResults |-> NoResults, isAnalyzing |-> FALSE]

\* mount: useState initial values, then the mount effect calls startCamera,
\* whose first getUserMedia request (high quality) is left pending
\* the cameras the backend knows (camera_id values)
Cameras == {"cam1", "cam2"}

\* MainDashboard after its first render: the mount effect has called
\* loadDashboardData, whose request is in flight
DashInitState ==
    [activeTab |-> "dashboard", cameras |-> {},
     cameraStates |-> [c \in Cameras |-> "undefined"],
     stats |-> "initial",
     requests |-> <<[url |-> "stats", camera |-> "none"]>>,
     reloadTimers |-> 0]

\* the clips the page lists (video_id values)
Clips == {"vid1", "vid2"}

\* SecurityClips after its first render: the mount effect has called
\* fetchClips, whose request is in flight
ClipsInitState ==
    [clips |-> {}, loading |-> TRUE, selectedClip |-> "null",
     processing |-> [v \in Clips |-> "undefined"],
     clipSummary |-> "", highlightsUrl |-> "",
     requests |-> <<>>]

\* the employees of today's attendance list (employee_id values)
Employees == {"emp1", "emp2"}
\* the months and years the run selects
Months == {1, 2}
Years == {2024, 2025}

\* what GET /api/attendance/<employee>/month/<year>/<month> answers: the
\* month sheet of that employee, named here by the three path values
MonthSheet(employee, year, month) ==
    [employee |-> employee, year |-> year, month |-> month]
\* monthlyData before any response
NoMonthSheet == [employee |-> "null", year |-> 0, month |-> 0]

\* the Attendance page after its first render: the mount effect has called
\* loadTodayAttendance, whose request is in flight
AttInitState ==
    [todayAttendance |-> {}, selectedEmployee |-> "null",
     selectedEmployeeData |-> "null", monthlyData |-> NoMonthSheet,
     selectedMonth |-> 1, selectedYear |-> 2025,
     requests |-> <<[url |-> "today", employee |-> "null", year |-> 0, month |-> 0]>>,
     monthlyFailed |-> FALSE]

\* width and height of the analysed frames, in pixels
ImageWidth == 3
ImageHeight == 3
\* the pixel positions of a frame, row by row (index y * width + x + 1)
PixelIndexes == 1..(ImageWidth * ImageHeight)
\* the positions whose colour the run chooses; the others are dark
VariedPixels == {1, 3, 5, 7, 9}
\* the colours a pixel takes
Colors == {"dark", "skin"}
\* the frames analysed: ImageData of a canvas
Images ==
    {[i \in PixelIndexes |-> IF i \in S THEN "skin" ELSE "dark"] :
        S \in SUBSET VariedPixels}
\* the confidences, in thousandths, the four detectors of detectFaceLocal
\* report for the photo given to detectFaceAdvanced
LocalScores ==
    [skin : {0, 500, 1000}, facial : {0, 400, 1000},
     edges : {0, 1000}, symmetry : {0, 900}]

\* no frame analysed and no photo examined yet
ApiInitState ==
    [image |-> [i \in PixelIndexes |-> "dark"],
     scores |-> [skin |-> 0, facial |-> 0, edges |-> 0, symmetry |-> 0],
     evals |-> <<>>]

InitBasic ==
    /\ comp = "basic"
    /\ mounted = TRUE
    /\ tracks = [s \in Streams |-> "unborn"]
    /\ gum = <<GumRequest("high")>>
    /\ timers = <<>>
    /\ fetches = <<>>
    /\ requests = {}
    /\ callbacks = <<>>
    /\ basic = BasicInitState
    /\ quick = QuickInitState
    /\ blobs = <<>>
    /\ urls = [u \in Urls |-> "unborn"]
    /\ observeUrls = FALSE
    /\ readers = <<>>
    /\ adv = AdvInitState
    /\ rt = RtInitState
    /\ runs = <<>>
    /\ dash = DashInitState
    /\ clips = ClipsInitState
    /\ att = AttInitState
    /\ api = ApiInitState

RemoveAt(s, i) == SubSeq(s, 1, i-1) \o SubSeq(s, i+1, Len(s))

\* the browser grants a pending getUserMedia request: it creates the stream
\* with running tracks; the promise's continuation runs in a later task
GumGranted(i) ==
    /\ i \in 1..Len(gum)
    /\ gum[i].state = "pending"
    /\ NextStream \in Streams
    /\ tracks' = [tracks EXCEPT ![NextStream] = "live"]
    /\ gum' = [gum EXCEPT ![i] = [@ EXCEPT !.state = "granted", !.stream = NextStream]]
    /\ UNCHANGED <<comp, mounted, timers, fetches, requests, callbacks, basic, notBasic>>

\* startCamera resumes after its awaited getUserMedia: setStream takes
\* effect only while the component is mounted
BasicStartCameraResolved(i) ==
    /\ comp = "basic"
    /\ i \in 1..Len(gum)
    /\ gum[i].state = "granted"
    /\ gum' = RemoveAt(gum, i)
    /\ basic' = IF mounted THEN [basic EXCEPT !.stream = gum[i].stream] ELSE basic
    /\ UNCHANGED <<comp, mounted, tracks, timers, fetches, requests, callbacks, notBasic>>

\* startCamera: getUserMedia rejects.  The high-quality request falls back to
\* a standard-quality request; a rejected fallback is only logged.
BasicStartCameraRejected(i) ==
    /\ comp = "basic"
    /\ i \in 1..Len(gum)
    /\ gum[i].state = "pending"
    /\ gum' = IF gum[i].kind = "high"
              THEN Append(RemoveAt(gum, i), GumRequest("fallback"))
              ELSE RemoveAt(gum, i)
    /\ UNCHANGED <<comp, mounted, tracks, timers, fetches, requests, callbacks, basic, notBasic>>

\* the video element reports its dimensions once the attached stream has loaded
BasicVideoLoaded ==
    /\ comp = "basic"
    /\ mounted
    /\ basic.stream # NoStream
    /\ ~basic.hasDims
    /\ basic' = [basic EXCEPT !.hasDims = TRUE]
    /\ UNCHANGED <<comp, mounted, tracks, gum, timers, fetches, requests, callbacks, notBasic>>

\* completeCapture called from a closure whose capturedImages is `images`:
\* the part up to the awaited fetch
CompleteCaptureCall(images) ==
    /\ requests' = requests \cup {[url |-> "register-advanced",
                                   biometric_images |-> BiometricImages(images)]}
    /\ fetches' = Append(fetches, [url |-> "register-advanced", images |-> images])

\* captureImage (the Capture button; disabled while isCapturing or with 5 stored)
BasicCaptureImage ==
    /\ comp = "basic"
    /\ mounted
    /\ ~basic.isCapturing
    /\ Len(basic.capturedImages) < 5
    /\ IF basic.hasDims
       THEN /\ basic' = [basic EXCEPT
                   !.isCapturing = TRUE,
                   !.capturedImages = AppendCapture(@,
                       [angle |-> CaptureAngle(basic.currentAngle), resolution |-> "nonzero"])]
            /\ timers' = Append(timers, [kind |-> "captured",
                                         currentAngle |-> basic.currentAngle,
                                         capturedImages |-> basic.capturedImages])
       ELSE \* getImageData on a 0x0 canvas throws after setIsCapturing(true)
            /\ basic' = [basic EXCEPT !.isCapturing = TRUE]
            /\ timers' = timers
    /\ UNCHANGED <<comp, mounted, tracks, gum, fetches, requests, callbacks, notBasic>>

\* the 500 ms timer set by captureImage fires, with the closure of that call
BasicCaptureTimer ==
    /\ comp = "basic"
    /\ timers # <<>>
    /\ Head(timers).kind = "captured"
    /\ timers' = Tail(timers)
    /\ LET c == Head(timers) IN
       IF c.currentAngle < Len(angles) - 1
       THEN /\ basic' = IF mounted
                        THEN [basic EXCEPT !.isCapturing = FALSE, !.currentAngle = @ + 1]
                        ELSE basic
            /\ UNCHANGED <<fetches, requests>>
       ELSE /\ basic' = IF mounted THEN [basic EXCEPT !.isCapturing = TRUE] ELSE basic
            /\ CompleteCaptureCall(c.capturedImages)
    /\ UNCHANGED <<comp, mounted, tracks, gum, callbacks, notBasic>>

\* the completed view replaces the step instructions: capturedImages.length >= 5
BasicComplete(b) == Len(b.capturedImages) >= 5

\* the Register Biometric button (shown with 5 stored, disabled while isCapturing)
BasicRegisterButton ==
    /\ comp = "basic"
    /\ mounted
    /\ BasicComplete(basic)
    /\ ~basic.isCapturing
    /\ basic' = [basic EXCEPT !.isCapturing = TRUE]
    /\ CompleteCaptureCall(basic.capturedImages)
    /\ UNCHANGED <<comp, mounted, tracks, gum, timers, callbacks, notBasic>>

\* cleanup as the mount effect's closure sees it: the effect has no
\* dependencies, so `stream` is the value of the first render
BasicCleanup(stream) ==
    tracks' = IF stream # NoStream THEN [tracks EXCEPT ![stream] = "stopped"] ELSE tracks

\* a registration reported as done whatever the server answered
RegistrationAlwaysSucceeded(outcome) == TRUE

\* completeCapture's test of the answer: response.ok && result.success
RegistrationSucceeded(outcome) == outcome = "ok"

\* completeCapture after the awaited fetch: outcome is the server's answer
\* ("ok": response.ok and result.success; "failed": an error response;
\* "rejected": the fetch promise rejects).  On success onComplete is called,
\* on which the parent (MainDashboard.handleBasicBiometricComplete) removes
\* the component, so the mount effect's cleanup runs.
BasicCompleteCaptureDone(i, outcome) ==
    /\ comp = "basic"
    /\ i \in 1..Len(fetches)
    /\ fetches[i].url = "register-advanced"
    /\ fetches' = RemoveAt(fetches, i)
    /\ IF RegistrationSucceeded(outcome)
       THEN /\ Log([name |-> "onComplete", images |-> Slice(fetches[i].images, 5)])
            /\ mounted' = FALSE
            /\ BasicCleanup(BasicInitState.stream)
       ELSE UNCHANGED <<callbacks, mounted, tracks>>
    /\ basic' = IF mounted
                THEN [basic EXCEPT !.isCapturing = FALSE,
                                   !.alert = IF RegistrationSucceeded(outcome) THEN "success" ELSE "failed"]
                ELSE [basic EXCEPT !.alert = IF RegistrationSucceeded(outcome) THEN "success" ELSE "failed"]
    /\ UNCHANGED <<comp, gum, timers, requests, notBasic>>

\* the Recapture button (shown with 5 stored)
BasicRecapture ==
    /\ comp = "basic"
    /\ mounted
    /\ BasicComplete(basic)
    /\ basic' = [basic EXCEPT !.capturedImages = <<>>, !.currentAngle = 0]
    /\ UNCHANGED <<comp, mounted, tracks, gum, timers, fetches, requests, callbacks, notBasic>>

\* the parent unmounts the component (close button, Continue to Dashboard,
\* or the parent reacting to onComplete): the mount effect's cleanup runs
BasicUnmount ==
    /\ comp = "basic"
    /\ mounted
    /\ mounted' = FALSE
    /\ BasicCleanup(BasicInitState.stream)
    /\ UNCHANGED <<comp, gum, timers, fetches, requests, callbacks, basic, notBasic>>

NextBasic ==
    \/ \E i \in 1..Len(gum) : GumGranted(i)
    \/ \E i \in 1..Len(gum) : BasicStartCameraResolved(i)
    \/ \E i \in 1..Len(gum) : BasicStartCameraRejected(i)
    \/ BasicVideoLoaded
    \/ BasicCaptureImage
    \/ BasicCaptureTimer
    \/ BasicRegisterButton
    \/ \E i \in 1..Len(fetches), o \in {"ok", "failed", "rejected"} : BasicCompleteCaptureDone(i, o)
    \/ BasicRecapture
    \/ BasicUnmount

SpecBasic == InitBasic /\ [][NextBasic]_vars

(* ---------------------- BiometricCapture: operations -------------------- *)
\* the employeeId prop: absent or present
EmployeeIds == {"", "emp1"}

ObjectKeys(images) == DOMAIN images

\* stream.getTracks().forEach(track => track.stop())
StopTracks(tr, stream) ==
    IF stream # NoStream THEN [tr EXCEPT ![stream] = "stopped"] ELSE tr

\* URL.revokeObjectURL for every url of `images`
RevokeAll(u, images) ==
    IF \A a \in DOMAIN images : images[a].url \notin Urls
    THEN u
    ELSE [x \in Urls |-> IF \E a \in DOMAIN images : images[a].url = x THEN "revoked" ELSE u[x]]

\* URL.createObjectURL(blob) returning `url`
CreateUrl(u, url) == IF url \in Urls THEN [u EXCEPT ![url] = "live"] ELSE u

\* images[angle]?.url  (NoUrl for undefined)
UrlOf(images, angle) == IF angle \in DOMAIN images THEN images[angle].url ELSE NoUrl

\* if (url) URL.revokeObjectURL(url)
Revoke(u, url) == IF url \in Urls THEN [u EXCEPT ![url] = "revoked"] ELSE u

\* an analysis that succeeds with a single image
AnalyzeImagesMinOne(images) ==
    LET imageCount == Cardinality(ObjectKeys(images))
    IN  [success |-> imageCount >= 1, angles_captured |-> imageCount, retina_count |-> imageCount]

\* analyzeImages, as called by the [capturedImages] effect
AnalyzeImages(images) ==
    LET imageCount == Cardinality(ObjectKeys(images))
    IN  [success |-> imageCount >= 2, angles_captured |-> imageCount, retina_count |-> imageCount]

\* the "auto-analyze when images change" effect
AutoAnalyze(images) ==
    IF Cardinality(ObjectKeys(images)) > 0 THEN AnalyzeImages(images) ELSE NullAnalysis

\* const canRegister = capturedCount >= 2
CanRegister(q) == Cardinality(ObjectKeys(q.capturedImages)) >= 2

World == [q |-> quick, tracks |-> tracks, urls |-> urls]

\* a stopCamera that leaves the stream running and held
StopCameraLeavesStream(w, stream) == w

\* stopCamera as a closure over `stream` sees it
StopCamera(w, stream) ==
    IF stream # NoStream
    THEN [w EXCEPT !.tracks = StopTracks(@, stream),
                   !.q = [@ EXCEPT !.stream = NoStream, !.isVideoReady = FALSE]]
    ELSE w

\* One re-run of the [stopCamera, capturedImages] effect after a render: the
\* cleanup registered by the previous render runs with that render's
\* stopCamera and capturedImages, then the effect registers the cleanup of the
\* render just committed.  The [stream] effect re-attaches the video listener
\* when the rendered stream differs from the previous one.
CleanupPass(w) ==
    LET c == w.q.effect
        rendered == w.q
        stopped == StopCamera(w, c.stream)
    IN  [stopped EXCEPT
            !.urls = RevokeAll(@, c.capturedImages),
            !.q = [@ EXCEPT
                !.effect = [stream |-> rendered.stream, capturedImages |-> rendered.capturedImages],
                !.metadataPending = IF rendered.stream = c.stream THEN @
                                    ELSE rendered.stream # NoStream]]

\* renders and effects repeat until no dependency of an effect has changed
RECURSIVE Settle(_)
Settle(w) ==
    IF w.q.stream = w.q.effect.stream THEN w ELSE Settle(CleanupPass(w))

\* the render that follows a handler's state updates, with its effects;
\* imagesChanged tells whether setCapturedImages installed a new object
Commit(w, imagesChanged) ==
    IF imagesChanged
    THEN Settle(CleanupPass([w EXCEPT !.q.analysis = AutoAnalyze(w.q.capturedImages)]))
    ELSE Settle(w)

\* the streams and blob URLs something can still reach: the component's
\* state, its registered cleanup, and the closures of pending callbacks
StreamRefs(q, gm, tm, bl) ==
    {q.stream, q.effect.stream}
        \cup {gm[i].stream : i \in 1..Len(gm)}
        \cup {tm[i].stream : i \in 1..Len(tm)}
        \cup {bl[i].stream : i \in 1..Len(bl)}

UrlsOf(images) == {images[a].url : a \in DOMAIN images}

UrlRefs(q, bl) ==
    UrlsOf(q.capturedImages) \cup UrlsOf(q.effect.capturedImages)
        \cup {bl[i].url : i \in 1..Len(bl)}

\* a stopped stream, or a revoked URL, that nothing refers to any more is
\* forgotten: its id is free again (ids name objects, they do not count them)
Forget(status, dead, refs) ==
    [x \in DOMAIN status |-> IF status[x] = dead /\ x \notin refs THEN "unborn" ELSE status[x]]

\* the state after one task of the event loop
QuickStep(w, gm, tm, bl) ==
    /\ quick' = w.q
    /\ gum' = gm
    /\ timers' = tm
    /\ blobs' = bl
    /\ tracks' = Forget(w.tracks, "stopped", StreamRefs(w.q, gm, tm, bl))
    /\ urls' = IF observeUrls THEN Forget(w.urls, "revoked", UrlRefs(w.q, bl)) ELSE w.urls

\* mount: initial render, then the mount effect sets the 5 s timer and calls
\* startCamera, whose getUserMedia request is left pending
InitQuick ==
    /\ comp = "quick"
    /\ mounted = TRUE
    /\ tracks = [s \in Streams |-> "unborn"]
    /\ gum = <<GumRequest("default")>>
    /\ timers = <<[kind |-> "cameraTimeout", delay |-> 5000,
                   stream |-> NoStream, cameraError |-> "null"]>>
    /\ fetches = <<>>
    /\ requests = {}
    /\ callbacks = <<>>
    /\ basic = BasicInitState
    /\ \E e \in EmployeeIds : quick = [QuickInitState EXCEPT !.employeeId = e]
    /\ blobs = <<>>
    /\ urls = [u \in Urls |-> "unborn"]
    /\ observeUrls = FALSE
    /\ readers = <<>>
    /\ adv = AdvInitState
    /\ rt = RtInitState
    /\ runs = <<>>
    /\ dash = DashInitState
    /\ clips = ClipsInitState
    /\ att = AttInitState
    /\ api = ApiInitState

\* streams in existence plus getUserMedia requests not yet granted
StreamsClaimed ==
    Cardinality({s \in Streams : tracks[s] # "unborn"})
        + Cardinality({i \in 1..Len(gum) : gum[i].state = "pending"})

\* startCamera up to its awaited getUserMedia
StartCameraCall(q) == [q EXCEPT !.cameraError = "null", !.isVideoReady = FALSE]

\* the Start Camera Scan button (no stream) and the Restart Camera button
\* (a stream and 5 stored captures)
QuickStartCameraButton ==
    /\ comp = "quick"
    /\ mounted
    /\ \/ quick.stream = NoStream
       \/ Cardinality(ObjectKeys(quick.capturedImages)) = 5
    /\ StreamsClaimed < MaxStreams
    /\ QuickStep(Commit([World EXCEPT !.q = StartCameraCall(@)], FALSE),
                 Append(gum, GumRequest("default")), timers, blobs)
    /\ UNCHANGED <<comp, mounted, callbacks, readers, notQuick>>

\* startCamera resumes after its awaited getUserMedia: setStream(mediaStream)
QuickStartCameraResolved(i) ==
    /\ comp = "quick"
    /\ i \in 1..Len(gum)
    /\ gum[i].state = "granted"
    /\ QuickStep(IF mounted THEN Commit([World EXCEPT !.q.stream = gum[i].stream], FALSE)
                 ELSE World,
                 RemoveAt(gum, i), timers, blobs)
    /\ UNCHANGED <<comp, mounted, callbacks, readers, notQuick>>

\* startCamera: getUserMedia rejects
QuickStartCameraRejected(i) ==
    /\ comp = "quick"
    /\ i \in 1..Len(gum)
    /\ gum[i].state = "pending"
    /\ gum' = RemoveAt(gum, i)
    /\ quick' = IF mounted THEN [quick EXCEPT !.cameraError = "Camera access failed. Please allow permissions."] ELSE quick
    /\ UNCHANGED <<comp, mounted, tracks, timers, callbacks, blobs, urls, readers, notQuick>>

\* loadedmetadata on the video, then play() resolves
QuickVideoPlaying ==
    /\ comp = "quick"
    /\ mounted
    /\ quick.metadataPending
    /\ quick.stream # NoStream
    /\ tracks[quick.stream] = "live"
    /\ quick' = [quick EXCEPT !.metadataPending = FALSE, !.isVideoReady = TRUE,
                              !.cameraError = "null"]
    /\ UNCHANGED <<comp, mounted, tracks, gum, timers, callbacks, blobs, urls, readers, notQuick>>

\* a timer may fire once every timer set before it with no longer delay has fired
Fireable(i) ==
    /\ i \in 1..Len(timers)
    /\ \A j \in 1..(i-1) : timers[j].delay > timers[i].delay

\* the 5 s timer of the mount effect, with the first render's stream and cameraError
QuickCameraTimeout(i) ==
    /\ comp = "quick"
    /\ Fireable(i)
    /\ timers[i].kind = "cameraTimeout"
    /\ timers' = RemoveAt(timers, i)
    /\ quick' = IF mounted /\ timers[i].stream = NoStream /\ timers[i].cameraError = "null"
                THEN [quick EXCEPT !.cameraError = "Camera timeout. Click Start Camera to try again."]
                ELSE quick
    /\ UNCHANGED <<comp, mounted, tracks, gum, callbacks, blobs, urls, readers, notQuick>>

\* the blob URL ids of one angle, and the next free one (NoUrl when none is,
\* and in runs that do not record the URLs)
UrlsFor(angle) == {u \in Urls : u[1] = angle}

NextUrl(angle) ==
    IF observeUrls /\ \E u \in UrlsFor(angle) : urls[u] = "unborn"
    THEN CHOOSE u \in UrlsFor(angle) :
            urls[u] = "unborn" /\ \A v \in UrlsFor(angle) : urls[v] = "unborn" => u[2] <= v[2]
    ELSE NoUrl

UrlsClaimed(angle) ==
    IF observeUrls
    THEN Cardinality({u \in UrlsFor(angle) : urls[u] # "unborn"})
            + Cardinality({i \in 1..Len(blobs) : blobs[i].angle = angle})
    ELSE 0

\* a click on an angle box: onClick={() => isVideoReady && captureImage(angle)}.
\* captureImage up to canvas.toBlob, whose callback is left pending with what
\* it reads of this render: capturedImages[angle]?.url and stream.  `video`
\* is what the video element reports at the click.
QuickCaptureImage(angle, video) ==
    /\ comp = "quick"
    /\ mounted
    /\ quick.isVideoReady
    /\ angle \in QuickAngles
    /\ IF quick.stream = NoStream
       THEN /\ quick' = [quick EXCEPT !.cameraError = "Camera not ready for capture"]
            /\ blobs' = blobs
       ELSE IF ZeroDimensions(video)
       THEN /\ quick' = [quick EXCEPT !.cameraError = "Video dimensions not available"]
            /\ blobs' = blobs
       ELSE /\ Len(blobs) < MaxBlobs
            /\ UrlsClaimed(angle) < MaxUrls
            /\ blobs' = Append(blobs, [angle |-> angle,
                                       url |-> UrlOf(quick.capturedImages, angle),
                                       stream |-> quick.stream])
            /\ quick' = quick
    /\ UNCHANGED <<comp, mounted, tracks, gum, timers, callbacks, urls, readers, notQuick>>

\* the setCapturedImages updater of the toBlob callback
StoreCapture(prev, angle, url) ==
    [a \in DOMAIN prev \cup {angle} |-> IF a = angle THEN [url |-> url] ELSE prev[a]]

\* the toBlob callback runs (blob is null when the encoding failed)
QuickBlobReady(hasBlob) ==
    /\ comp = "quick"
    /\ blobs # <<>>
    /\ LET b == Head(blobs)
           revoked == Revoke(urls, b.url)
           url == NextUrl(b.angle)
           created == CreateUrl(revoked, url)
           newImages == StoreCapture(quick.capturedImages, b.angle, url)
       IN  IF ~hasBlob
           THEN QuickStep(World, gum, timers, Tail(blobs))
           ELSE IF ~mounted
           THEN QuickStep([World EXCEPT !.urls = created], gum, timers, Tail(blobs))
           ELSE QuickStep(Commit([World EXCEPT !.urls = created,
                                               !.q.capturedImages = newImages,
                                               !.q.cameraError = "null"], TRUE),
                          gum,
                          IF Cardinality(ObjectKeys(newImages)) = 5
                          THEN Append(timers, [kind |-> "autoStop", delay |-> 500,
                                               stream |-> b.stream, cameraError |-> "null"])
                          ELSE timers,
                          Tail(blobs))
    /\ UNCHANGED <<comp, mounted, callbacks, readers, notQuick>>

\* the 500 ms auto-stop timer set when the fifth angle was stored, with the
\* stream of the captureImage closure that created it
QuickAutoStop(i) ==
    /\ comp = "quick"
    /\ Fireable(i)
    /\ timers[i].kind = "autoStop"
    /\ QuickStep(IF mounted
                 THEN Commit(StopCamera(World, timers[i].stream), FALSE)
                 ELSE [World EXCEPT !.tracks = StopTracks(@, timers[i].stream)],
                 gum, RemoveAt(timers, i), blobs)
    /\ UNCHANGED <<comp, mounted, callbacks, readers, notQuick>>

\* the Stop Camera button (a stream and fewer or more than 5 stored captures)
QuickStopCameraButton ==
    /\ comp = "quick"
    /\ mounted
    /\ quick.stream # NoStream
    /\ Cardinality(ObjectKeys(quick.capturedImages)) # 5
    /\ QuickStep(Commit(StopCamera(World, quick.stream), FALSE), gum, timers, blobs)
    /\ UNCHANGED <<comp, mounted, callbacks, readers, notQuick>>

\* an updater that drops every stored capture
DeleteEveryImage(prev, angle) == NoImages

\* the setCapturedImages updater of removeImage
DeleteImage(prev, angle) == [a \in DOMAIN prev \ {angle} |-> prev[a]]

\* removeImage (the X button of a stored angle)
QuickRemoveImage(angle) ==
    /\ comp = "quick"
    /\ mounted
    /\ angle \in ObjectKeys(quick.capturedImages)
    /\ QuickStep(Commit([World EXCEPT
                    !.urls = Revoke(@, UrlOf(quick.capturedImages, angle)),
                    !.q.capturedImages = DeleteImage(@, angle)], TRUE),
                 gum, timers, blobs)
    /\ UNCHANGED <<comp, mounted, callbacks, readers, notQuick>>

\* the state updates of retakeAll, startCamera's included
RetakeAll(q) ==
    StartCameraCall([q EXCEPT !.capturedImages = NoImages, !.analysis = NullAnalysis,
                              !.cameraError = "null"])

\* retakeAll (the Retake All button, shown with a stream)
QuickRetakeAll ==
    /\ comp = "quick"
    /\ mounted
    /\ quick.stream # NoStream
    /\ StreamsClaimed < MaxStreams
    /\ QuickStep(Commit([World EXCEPT
                    !.urls = RevokeAll(@, quick.capturedImages),
                    !.q = RetakeAll(@)], TRUE),
                 Append(gum, GumRequest("default")), timers, blobs)
    /\ UNCHANGED <<comp, mounted, callbacks, readers, notQuick>>

\* a registerBiometric that checks the employee id only
RegisterBiometricAnyCount(q) ==
    LET imageCount == Cardinality(ObjectKeys(q.capturedImages)) IN
    IF q.employeeId = ""
    THEN [q |-> [q EXCEPT !.cameraError = "Need at least 2 captured images and valid employee ID"],
          reads |-> <<>>]
    ELSE IF "Center" \in ObjectKeys(q.capturedImages)
    THEN [q |-> [q EXCEPT !.isRegistering = TRUE],
          reads |-> <<[employee_id |-> q.employeeId,
                       angles_registered |-> ObjectKeys(q.capturedImages),
                       total_angles |-> imageCount]>>]
    ELSE [q |-> [q EXCEPT !.cameraError = "Center image not found", !.isRegistering = FALSE],
          reads |-> <<>>]

\* registerBiometric up to reader.readAsDataURL; the load is left pending
\* with the capturedImages of this render
RegisterBiometric(q) ==
    LET imageCount == Cardinality(ObjectKeys(q.capturedImages)) IN
    IF imageCount < 2 \/ q.employeeId = ""
    THEN [q |-> [q EXCEPT !.cameraError = "Need at least 2 captured images and valid employee ID"],
          reads |-> <<>>]
    ELSE IF "Center" \in ObjectKeys(q.capturedImages)
    THEN [q |-> [q EXCEPT !.isRegistering = TRUE],
          reads |-> <<[employee_id |-> q.employeeId,
                       angles_registered |-> ObjectKeys(q.capturedImages),
                       total_angles |-> imageCount]>>]
    ELSE [q |-> [q EXCEPT !.cameraError = "Center image not found", !.isRegistering = FALSE],
          reads |-> <<>>]

\* the Register Biometric button (shown with 2 or more stored, disabled while registering)
QuickRegisterButton ==
    /\ comp = "quick"
    /\ mounted
    /\ CanRegister(quick)
    /\ ~quick.isRegistering
    /\ quick' = RegisterBiometric(quick).q
    /\ readers' = readers \o RegisterBiometric(quick).reads
    /\ UNCHANGED <<comp, mounted, tracks, gum, timers, callbacks, blobs, urls, notQuick>>

\* registerBiometric invoked directly below the minimum, where the page
\* renders no button for it
QuickRegisterCall ==
    /\ comp = "quick"
    /\ mounted
    /\ ~CanRegister(quick)
    /\ quick' = RegisterBiometric(quick).q
    /\ readers' = readers \o RegisterBiometric(quick).reads
    /\ UNCHANGED <<comp, mounted, tracks, gum, timers, callbacks, blobs, urls, notQuick>>

LogAll(entries) ==
    callbacks' = SubSeq(callbacks \o entries, 1,
                        IF Len(callbacks) + Len(entries) < MaxLog
                        THEN Len(callbacks) + Len(entries) ELSE MaxLog)

\* what unmounting does: the cleanups of the effects run (clearTimeout of the
\* 5 s timer; stopCamera and the revocations of the last registered cleanup).
\* The component's state is discarded with it: only the closures of pending
\* callbacks keep what they captured, and state updates no longer take effect.
QuickCleanups(w) ==
    /\ mounted' = FALSE
    /\ QuickStep([w EXCEPT !.tracks = StopTracks(@, w.q.effect.stream),
                           !.urls = RevokeAll(@, w.q.effect.capturedImages),
                           !.q = [QuickInitState EXCEPT !.employeeId = quick.employeeId]],
                 gum, SelectSeq(timers, LAMBDA t : t.kind # "cameraTimeout"), blobs)

\* reader.onload: onCapture(result); onClose(); setIsRegistering(false).
\* onClose makes the parent remove the dialog, as MainDashboard does for its
\* capture dialogs, so a mounted component is unmounted.
QuickReaderLoaded ==
    /\ comp = "quick"
    /\ readers # <<>>
    /\ readers' = Tail(readers)
    /\ LogAll(<<[name |-> "onCapture", total_angles |-> Head(readers).total_angles],
                 [name |-> "onClose"]>>)
    /\ IF mounted
       THEN QuickCleanups(World)
       ELSE UNCHANGED <<mounted, timers, quick, tracks, urls, gum, blobs>>
    /\ UNCHANGED <<comp, notQuick>>

\* handleClose (the X button of the dialog): stopCamera, the revocations,
\* then onClose, on which the parent removes the dialog
QuickHandleClose ==
    /\ comp = "quick"
    /\ mounted
    /\ LogAll(<<[name |-> "onClose"]>>)
    /\ QuickCleanups(Commit([StopCamera(World, quick.stream) EXCEPT
            !.urls = RevokeAll(@, quick.capturedImages)], FALSE))
    /\ UNCHANGED <<comp, readers, notQuick>>

\* the parent unmounts the component for a reason of its own
QuickUnmount ==
    /\ comp = "quick"
    /\ mounted
    /\ QuickCleanups(World)
    /\ UNCHANGED <<comp, callbacks, readers, notQuick>>

NextQuick ==
    \/ \E i \in 1..Len(gum) : GumGranted(i)
    \/ QuickStartCameraButton
    \/ \E i \in 1..Len(gum) : QuickStartCameraResolved(i)
    \/ \E i \in 1..Len(gum) : QuickStartCameraRejected(i)
    \/ QuickVideoPlaying
    \/ \E i \in 1..Len(timers) : QuickCameraTimeout(i)
    \/ \E a \in QuickAngles, v \in Videos : QuickCaptureImage(a, v)
    \/ \E ok \in BOOLEAN : QuickBlobReady(ok)
    \/ \E i \in 1..Len(timers) : QuickAutoStop(i)
    \/ QuickStopCameraButton
    \/ \E a \in QuickAngles : QuickRemoveImage(a)
    \/ QuickRetakeAll
    \/ QuickRegisterButton
    \/ QuickReaderLoaded
    \/ QuickHandleClose
    \/ QuickUnmount

SpecQuick == InitQuick /\ [][NextQuick]_vars

\* the quick flow with registerBiometric also callable as a function
NextQuickApi ==
    \/ NextQuick
    \/ QuickRegisterCall

SpecQuickApi == InitQuick /\ [][NextQuickApi]_vars

\* either capture dialog: the guided flow or the quick flow
InitCapture ==
    \/ InitBasic
    \/ InitQuick

NextCapture ==
    \/ NextBasic
    \/ NextQuick

SpecCapture == InitCapture /\ [][NextCapture]_vars
(* ----------------- AdvancedBiometricCapture: operations ----------------- *)
\* mount: initial render, then the mount effect calls startCamera, whose
\* getUserMedia request is left pending
InitAdv ==
    /\ comp = "adv"
    /\ mounted = TRUE
    /\ tracks = [s \in Streams |-> "unborn"]
    /\ gum = <<GumRequest("user")>>
    /\ timers = <<>>
    /\ fetches = <<>>
    /\ requests = {}
    /\ callbacks = <<>>
    /\ basic = BasicInitState
    /\ quick = QuickInitState
    /\ blobs = <<>>
    /\ urls = [u \in Urls |-> "unborn"]
    /\ observeUrls = FALSE
    /\ readers = <<>>
    /\ adv = AdvInitState
    /\ rt = RtInitState
    /\ runs = <<>>
    /\ dash = DashInitState
    /\ clips = ClipsInitState
    /\ att = AttInitState
    /\ api = ApiInitState

\* addMessage: the newest message is shown first
AddMessage(a, text) == [a EXCEPT !.message = text]

\* startCamera resumes after its awaited getUserMedia: setStream, then with
\* the video element present it awaits onloadedmetadata; without it (the
\* component is gone) it goes straight on to the start-session request
AdvStartCameraResolved(i) ==
    /\ comp = "adv"
    /\ i \in 1..Len(gum)
    /\ gum[i].state = "granted"
    /\ gum' = RemoveAt(gum, i)
    /\ IF mounted
       THEN /\ adv' = [adv EXCEPT !.stream = gum[i].stream, !.metadataPending = TRUE]
            /\ fetches' = fetches
       ELSE /\ adv' = adv
            /\ fetches' = Append(fetches, [url |-> "start-session", frame |-> NoFrame])
    /\ UNCHANGED <<comp, mounted, tracks, timers, callbacks, notAdv>>

\* startCamera: getUserMedia rejects
AdvStartCameraRejected(i) ==
    /\ comp = "adv"
    /\ i \in 1..Len(gum)
    /\ gum[i].state = "pending"
    /\ gum' = RemoveAt(gum, i)
    /\ adv' = IF mounted THEN AddMessage(adv, "camera error") ELSE adv
    /\ UNCHANGED <<comp, mounted, tracks, timers, fetches, callbacks, notAdv>>

\* onloadedmetadata resolves startCamera's wait: the start-session request is sent
AdvVideoLoaded ==
    /\ comp = "adv"
    /\ adv.metadataPending
    /\ adv' = IF mounted
              THEN AddMessage([adv EXCEPT !.metadataPending = FALSE],
                              "Camera connected successfully!")
              ELSE [adv EXCEPT !.metadataPending = FALSE]
    /\ fetches' = Append(fetches, [url |-> "start-session", frame |-> NoFrame])
    /\ UNCHANGED <<comp, mounted, tracks, gum, timers, callbacks, notAdv>>

\* startProcessing, run by the [sessionId, stream] effect when both are set
StartProcessing(a) ==
    IF a.sessionId # NoSession /\ a.stream # NoStream
    THEN [a EXCEPT !.processingInterval = "running"]
    ELSE a

\* startCamera after the awaited start-session response ("ok": response.ok
\* and data.success; "failed": anything else, caught)
AdvSessionStarted(i, outcome) ==
    /\ comp = "adv"
    /\ i \in 1..Len(fetches)
    /\ fetches[i].url = "start-session"
    /\ fetches' = RemoveAt(fetches, i)
    /\ adv' = IF ~mounted THEN adv
              ELSE IF outcome = "ok"
              THEN StartProcessing(AddMessage([adv EXCEPT !.sessionId = SessionId],
                                              "AI biometric session started. Position your face clearly."))
              ELSE AddMessage(adv, "session error")
    /\ UNCHANGED <<comp, mounted, tracks, gum, timers, callbacks, notAdv>>

\* a tick of the 200 ms interval.  Its callback and the processFrame it calls
\* belong to the render in which the effect ran, where isProcessing is false
\* and sessionId is set, so neither isProcessing test stops it.  With a video
\* of zero width or height processFrame returns before drawing, and its
\* finally block undoes setIsProcessing(true); otherwise the frame is sent.
AdvProcessFrame(video) ==
    /\ comp = "adv"
    /\ adv.processingInterval = "running"
    /\ IF ZeroDimensions(video)
       THEN UNCHANGED <<adv, fetches>>
       ELSE /\ adv.framesSent < MaxFrames
            /\ adv' = [adv EXCEPT !.isProcessing = TRUE, !.framesSent = @ + 1]
            /\ fetches' = Append(fetches, [url |-> "process-frame", frame |-> adv.framesSent + 1])
    /\ UNCHANGED <<comp, mounted, tracks, gum, timers, callbacks, notAdv>>

\* clearInterval(processingIntervalRef.current) when the ref is set
ClearProcessingInterval(a) ==
    IF a.processingInterval # "none" THEN [a EXCEPT !.processingInterval = "cleared"] ELSE a

\* processFrame after the awaited process-frame response.  result is the
\* server's answer: "notOk" (an error status, or the fetch rejects), "failure"
\* (success false), "progress" (success, session not complete), "complete"
\* (success with session_complete).  State setters act only while mounted;
\* clearInterval and setTimeout act regardless.
AdvFrameDone(i, result) ==
    /\ comp = "adv"
    /\ i \in 1..Len(fetches)
    /\ fetches[i].url = "process-frame"
    /\ fetches' = RemoveAt(fetches, i)
    /\ LET applied == IF mounted /\ result \in {"progress", "complete"}
                      THEN [adv EXCEPT !.currentAnalysis = fetches[i].frame,
                                       !.sessionProgress = fetches[i].frame]
                      ELSE adv
           completed == IF result = "complete"
                        THEN ClearProcessingInterval(
                                IF mounted
                                THEN AddMessage([applied EXCEPT !.isComplete = TRUE],
                                                "All angles captured! Processing attendance...")
                                ELSE applied)
                        ELSE applied
       IN  adv' = IF mounted THEN [completed EXCEPT !.isProcessing = FALSE] ELSE completed
    /\ timers' = IF result = "complete"
                 THEN Append(timers, [kind |-> "complete", delay |-> 2000,
                                      session_id |-> SessionId,
                                      biometric_data |-> fetches[i].frame])
                 ELSE timers
    /\ UNCHANGED <<comp, mounted, tracks, gum, callbacks, notAdv>>

\* the 2 s timer set on session_complete fires: onComplete
AdvCompleteTimer(i) ==
    /\ comp = "adv"
    /\ Fireable(i)
    /\ timers[i].kind = "complete"
    /\ timers' = RemoveAt(timers, i)
    /\ Log([name |-> "onComplete", session_id |-> timers[i].session_id,
            biometric_data |-> timers[i].biometric_data])
    /\ UNCHANGED <<comp, mounted, tracks, gum, fetches, adv, notAdv>>

\* cleanup as the mount effect's closure sees it: the effect has no
\* dependencies, so stream and sessionId are the values of the first render;
\* processingIntervalRef is a ref and is read when cleanup runs
AdvCleanup(a, stream, sessionId) ==
    /\ tracks' = StopTracks(tracks, stream)
    /\ adv' = ClearProcessingInterval(a)
    /\ fetches' = IF sessionId # NoSession
                  THEN Append(fetches, [url |-> "delete-session", frame |-> NoFrame])
                  ELSE fetches

\* the parent unmounts the component (its close button calls onClose): the
\* cleanup of the interval effect and the mount effect's cleanup run
AdvUnmount ==
    /\ comp = "adv"
    /\ mounted
    /\ mounted' = FALSE
    /\ AdvCleanup(ClearProcessingInterval(adv), AdvInitState.stream, AdvInitState.sessionId)
    /\ UNCHANGED <<comp, gum, timers, callbacks, notAdv>>

NextAdv ==
    \/ \E i \in 1..Len(gum) : GumGranted(i)
    \/ \E i \in 1..Len(gum) : AdvStartCameraResolved(i)
    \/ \E i \in 1..Len(gum) : AdvStartCameraRejected(i)
    \/ AdvVideoLoaded
    \/ \E i \in 1..Len(fetches), o \in {"ok", "failed"} : AdvSessionStarted(i, o)
    \/ \E v \in Videos : AdvProcessFrame(v)
    \/ \E i \in 1..Len(fetches), r \in {"notOk", "failure", "progress", "complete"} :
            AdvFrameDone(i, r)
    \/ \E i \in 1..Len(timers) : AdvCompleteTimer(i)
    \/ AdvUnmount

SpecAdv == InitAdv /\ [][NextAdv]_vars

(* ------------------ RealTimeFaceDetection: camera ------------------------ *)
InitRt ==
    /\ comp = "rt"
    /\ mounted = TRUE
    /\ tracks = [s \in Streams |-> "unborn"]
    /\ gum = <<GumRequest("hd")>>
    /\ timers = <<>>
    /\ fetches = <<>>
    /\ requests = {}
    /\ callbacks = <<>>
    /\ basic = BasicInitState
    /\ quick = QuickInitState
    /\ blobs = <<>>
    /\ urls = [u \in Urls |-> "unborn"]
    /\ observeUrls = FALSE
    /\ readers = <<>>
    /\ adv = AdvInitState
    /\ rt = RtInitState
    /\ runs = <<>>
    /\ dash = DashInitState
    /\ clips = ClipsInitState
    /\ att = AttInitState
    /\ api = ApiInitState

\* startCamera resumes after its awaited getUserMedia: setStream; the [stream]
\* effect then starts the 50 ms analysis interval
RtStartCameraResolved(i) ==
    /\ comp = "rt"
    /\ i \in 1..Len(gum)
    /\ gum[i].state = "granted"
    /\ gum' = RemoveAt(gum, i)
    /\ rt' = IF mounted
             THEN [rt EXCEPT !.stream = gum[i].stream, !.detectFaces = "running"]
             ELSE rt
    /\ UNCHANGED <<comp, mounted, tracks, callbacks, runs, notRt>>

\* startCamera: getUserMedia rejects (logged only)
RtStartCameraRejected(i) ==
    /\ comp = "rt"
    /\ i \in 1..Len(gum)
    /\ gum[i].state = "pending"
    /\ gum' = RemoveAt(gum, i)
    /\ UNCHANGED <<comp, mounted, tracks, callbacks, rt, runs, notRt>>

\* the mount effect's cleanup as its closure sees it (stream of the first render)
RtCleanup(stream) == tracks' = StopTracks(tracks, stream)

\* the parent unmounts the component: the [stream] effect's cleanup clears the
\* interval, the mount effect's cleanup runs
RtUnmount ==
    /\ comp = "rt"
    /\ mounted
    /\ mounted' = FALSE
    /\ rt' = IF rt.detectFaces = "running" THEN [rt EXCEPT !.detectFaces = "cleared"] ELSE rt
    /\ RtCleanup(RtInitState.stream)
    /\ UNCHANGED <<comp, gum, callbacks, runs, notRt>>

(* ------------- RealTimeFaceDetection: detection and capture -------------- *)
\* what detectFaceWithMultipleAlgorithms can report of the frame on the
\* canvas: detected, quality (0..100) and confidence (in tenths)
FaceReadings ==
    {[detected |-> FALSE, quality |-> 0, confidence |-> 0],
     [detected |-> TRUE, quality |-> 39, confidence |-> 9],
     [detected |-> TRUE, quality |-> 40, confidence |-> 7],
     [detected |-> TRUE, quality |-> 80, confidence |-> 9]}

\* no frame taken
NoReading == [detected |-> FALSE, quality |-> 0, confidence |-> 0]

\* the average liveness score of a run's captures (in tenths)
LivenessScores == {5, 7, 9}

\* the captureAngles array of captureSmartphoneLikeFaces
captureAngles ==
    <<"center", "slight_left", "slight_right", "slight_up", "slight_down",
      "center_close", "center_far">>

\* the test of captureSmartphoneLikeFaces and of the Start button's
\* `disabled`: !faceDetected || faceQuality < 40 || detectionConfidence < 0.7
BelowThresholds(faceDetected, faceQuality, detectionConfidence) ==
    ~faceDetected \/ faceQuality < 40 \/ detectionConfidence < 7

\* a tick of the 50 ms interval: performRealTimeAnalysis draws the frame on
\* the canvas and stores what the detector reports of it
RtPerformRealTimeAnalysis(faceData) ==
    /\ comp = "rt"
    /\ mounted
    /\ rt.detectFaces = "running"
    /\ rt' = [rt EXCEPT !.faceDetected = faceData.detected,
                        !.faceQuality = faceData.quality,
                        !.detectionConfidence = faceData.confidence]
    /\ UNCHANGED <<comp, mounted, tracks, gum, callbacks, runs, notRt>>

\* the Start Advanced Face Scan button (shown while !isCapturing &&
\* !analysisResults): captureSmartphoneLikeFaces up to the first 800 ms wait.
\* The call keeps the faceQuality and detectionConfidence of its render.
RtCaptureSmartphoneLikeFaces ==
    /\ comp = "rt"
    /\ mounted
    /\ ~rt.isCapturing
    /\ rt.analysisResults = NoResults
    /\ ~BelowThresholds(rt.faceDetected, rt.faceQuality, rt.detectionConfidence)
    /\ Len(runs) < MaxRuns
    /\ rt' = [rt EXCEPT !.isCapturing = TRUE]
    /\ runs' = Append(runs, [at |-> "wait", i |-> 0, captures |-> <<>>,
                             image |-> NoReading,
                             faceQuality |-> rt.faceQuality,
                             detectionConfidence |-> rt.detectionConfidence,
                             retried |-> FALSE])
    /\ UNCHANGED <<comp, mounted, tracks, gum, callbacks, notRt>>

\* the 800 ms wait of run k is over: canvas.toDataURL takes the frame on the
\* canvas, which is the frame the last interval tick drew (`image` is what
\* the detector reports of it); performAdvancedFacialAnalysis is awaited.
\* After an unmount canvasRef.current is null and the call ends with a TypeError.
RtCaptureFrame(k) ==
    /\ comp = "rt"
    /\ k \in 1..Len(runs)
    /\ runs[k].at = "wait"
    /\ runs' = IF mounted
               THEN [runs EXCEPT ![k] = [@ EXCEPT
                        !.at = "analysis",
                        !.image = [detected |-> rt.faceDetected,
                                   quality |-> rt.faceQuality,
                                   confidence |-> rt.detectionConfidence]]]
               ELSE RemoveAt(runs, k)
    /\ UNCHANGED <<comp, mounted, tracks, gum, callbacks, rt, notRt>>

\* performAdvancedFacialAnalysis of run k returns: the capture is pushed (its
\* image is the frame taken, its quality and confidence those of the call) and
\* setCaptureCount(i + 1) called; after the seventh the loop ends,
\* setIsCapturing(false), and performComprehensiveSmartphoneAnalysis starts
\* with setIsAnalyzing(true) and its 3 s wait
RtCapturePushed(k) ==
    /\ comp = "rt"
    /\ k \in 1..Len(runs)
    /\ runs[k].at = "analysis"
    /\ LET r == runs[k]
           capture == [angle |-> captureAngles[r.i + 1],
                       quality |-> r.faceQuality,
                       confidence |-> r.detectionConfidence]
           last == r.i + 1 = Len(captureAngles)
       IN  /\ runs' = [runs EXCEPT ![k] = [@ EXCEPT
                            !.at = IF last THEN "processing" ELSE "wait",
                            !.i = @ + 1,
                            !.image = NoReading,
                            !.captures = Append(@, capture)]]
           /\ rt' = IF ~mounted THEN rt
                    ELSE IF last
                    THEN [rt EXCEPT !.captureCount = r.i + 1, !.isCapturing = FALSE,
                                    !.isAnalyzing = TRUE]
                    ELSE [rt EXCEPT !.captureCount = r.i + 1]
    /\ UNCHANGED <<comp, mounted, tracks, gum, callbacks, notRt>>

\* captures.reduce((sum, cap) => sum + cap[field], 0)
RECURSIVE SumQuality(_)
SumQuality(captures) ==
    IF captures = <<>> THEN 0 ELSE Head(captures).quality + SumQuality(Tail(captures))

RECURSIVE SumConfidence(_)
SumConfidence(captures) ==
    IF captures = <<>> THEN 0 ELSE Head(captures).confidence + SumConfidence(Tail(captures))

\* results.recommendation (confidence and liveness in tenths; the averages
\* are compared as sums against the threshold times the number of captures)
Recommendation(captures, avgLiveness) ==
    LET n == Len(captures)
        sumQuality == SumQuality(captures)
        sumConfidence == SumConfidence(captures)
    IN  IF sumQuality > 70 * n /\ sumConfidence > 8 * n /\ avgLiveness > 7 THEN "EXCELLENT"
        ELSE IF sumQuality > 50 * n /\ sumConfidence > 6 * n /\ avgLiveness > 5 THEN "GOOD"
        ELSE "RETRY"

\* the 3 s wait of performComprehensiveSmartphoneAnalysis of run k is over:
\* setAnalysisResults, setIsAnalyzing(false), and with a recommendation of
\* EXCELLENT or GOOD onFaceCapture, on which the parent
\* (MainDashboard.handleSmartphoneFaceCapture) removes the component
RtComprehensiveAnalysisDone(k, avgLiveness) ==
    /\ comp = "rt"
    /\ k \in 1..Len(runs)
    /\ runs[k].at = "processing"
    /\ runs' = RemoveAt(runs, k)
    /\ LET results == [totalCaptures |-> Len(runs[k].captures),
                       recommendation |-> Recommendation(runs[k].captures, avgLiveness)]
           shown == IF mounted
                    THEN [rt EXCEPT !.analysisResults = results, !.isAnalyzing = FALSE]
                    ELSE rt
       IN  IF results.recommendation \in {"EXCELLENT", "GOOD"}
           THEN /\ Log([name |-> "onFaceCapture", totalCaptures |-> results.totalCaptures])
                /\ mounted' = FALSE
                /\ rt' = IF mounted /\ shown.detectFaces = "running"
                         THEN [shown EXCEPT !.detectFaces = "cleared"]
                         ELSE shown
                /\ IF mounted THEN RtCleanup(RtInitState.stream) ELSE tracks' = tracks
           ELSE /\ rt' = shown
                /\ UNCHANGED <<callbacks, mounted, tracks>>
    /\ UNCHANGED <<comp, gum, notRt>>

\* the Retry Capture button (shown while isCapturing || analysisResults).
\* The calls in flight are not told; `retried` only records that they were
\* in flight when the button was pressed.
RtRetryCapture ==
    /\ comp = "rt"
    /\ mounted
    /\ rt.isCapturing \/ rt.analysisResults # NoResults
    /\ rt' = [rt EXCEPT !.analysisResults = NoResults, !.captureCount = 0,
                        !.isCapturing = FALSE, !.isAnalyzing = FALSE]
    /\ runs' = [k \in 1..Len(runs) |-> [runs[k] EXCEPT !.retried = TRUE]]
    /\ UNCHANGED <<comp, mounted, tracks, gum, callbacks, notRt>>

NextRt ==
    \/ \E i \in 1..Len(gum) : GumGranted(i)
    \/ \E i \in 1..Len(gum) : RtStartCameraResolved(i)
    \/ \E i \in 1..Len(gum) : RtStartCameraRejected(i)
    \/ \E f \in FaceReadings : RtPerformRealTimeAnalysis(f)
    \/ RtCaptureSmartphoneLikeFaces
    \/ \E k \in 1..Len(runs) : RtCaptureFrame(k)
    \/ \E k \in 1..Len(runs) : RtCapturePushed(k)
    \/ \E k \in 1..Len(runs), l \in LivenessScores : RtComprehensiveAnalysisDone(k, l)
    \/ RtRetryCapture
    \/ RtUnmount

SpecRt == InitRt /\ [][NextRt]_vars

\* the three components whose mount effect owns the camera
InitCameras ==
    \/ InitBasic
    \/ InitAdv
    \/ InitRt

NextCameras ==
    \/ NextBasic
    \/ NextAdv
    \/ NextRt

SpecCameras == InitCameras /\ [][NextCameras]_vars

\* the three components that test the dimensions of the frame they take
InitFrames ==
    \/ InitBasic
    \/ InitQuick
    \/ InitAdv

NextFrames ==
    \/ NextBasic
    \/ NextQuick
    \/ NextAdv

SpecFrames == InitFrames /\ [][NextFrames]_vars

(* ------------------------------- claims -------------------------------- *)
QuickCount == Cardinality(ObjectKeys(quick.capturedImages))

BasicAngles(b) == {b.capturedImages[i].angle : i \in 1..Len(b.capturedImages)}

LiveStreams == {s \in Streams : tracks[s] = "live"}

\* C1: every registration request sent by completeCapture of the guided flow
\* (by the 500 ms timer after the last capture or by the Register Biometric
\* button) carries the images of all 5 angles.
C1_EveryRequestCarriesFiveAngles ==
    \A r \in requests : Cardinality(r.biometric_images) = 5

\* C2: the stored captures hold at most one capture per angle label and at
\* most 5 captures: the list of the guided flow has no two entries with the
\* same angle and no more than 5 entries, the map of the quick flow is keyed
\* by the five angle labels.
C2_AtMostOneCapturePerAngle ==
    /\ Len(basic.capturedImages) <= 5
    /\ \A i, j \in 1..Len(basic.capturedImages) :
            i # j => basic.capturedImages[i].angle # basic.capturedImages[j].angle
    /\ ObjectKeys(quick.capturedImages) \subseteq QuickAngles
    /\ QuickCount <= 5

\* the guided flow holds five captures, one of each angle
C2_FiveStored ==
    /\ comp = "basic"
    /\ Len(basic.capturedImages) = 5
    /\ Cardinality(BasicAngles(basic)) = 5

\* C3: a session is reported complete iff the stored angles reach the flow's
\* minimum.  Quick flow: canRegister and analysis.success are true iff at
\* least 2 angles are stored.  Guided flow: the completed view is shown only
\* with 5 distinct angles stored, and is entered exactly by the insert of the
\* fifth one.
C3_CompleteIffMinimumStored ==
    /\ [](/\ CanRegister(quick) <=> QuickCount >= 2
          /\ (quick.analysis # NullAnalysis /\ quick.analysis.success) <=> QuickCount >= 2
          /\ BasicComplete(basic) => Cardinality(BasicAngles(basic)) = 5)
    /\ [][(~BasicComplete(basic) /\ BasicComplete(basic)') =>
            /\ Len(basic.capturedImages) = 4
            /\ \E c \in BasicAngles(basic)' \ BasicAngles(basic) :
                    basic'.capturedImages = Append(basic.capturedImages,
                                                   basic'.capturedImages[5])
                    /\ basic'.capturedImages[5].angle = c]_vars

\* the quick flow at its minimum: exactly 2 angles stored and reported complete
C3_TwoStoredComplete ==
    /\ comp = "quick"
    /\ mounted
    /\ QuickCount = 2
    /\ quick.analysis # NullAnalysis
    /\ quick.analysis.success

\* C4: registerBiometric of the quick flow invoked with 0 or 1 stored angles
\* sets the error message, starts no payload (no onCapture, no onClose) and
\* leaves the stored captures as they are.
C4_BelowMinimumIsRefused ==
    [][QuickRegisterCall =>
        /\ QuickCount < 2
        /\ quick'.cameraError = "Need at least 2 captured images and valid employee ID"
        /\ quick'.capturedImages = quick.capturedImages
        /\ quick'.isRegistering = quick.isRegistering
        /\ readers' = readers
        /\ callbacks' = callbacks]_vars

\* registerBiometric has refused a session that has an employee id but fewer
\* than 2 stored angles
C4_RefusedBelowMinimum ==
    /\ comp = "quick"
    /\ mounted
    /\ quick.employeeId # ""
    /\ QuickCount < 2
    /\ quick.cameraError = "Need at least 2 captured images and valid employee ID"
    /\ readers = <<>>
    /\ callbacks = <<>>

\* C5: in the quick flow, whenever 2 or more angles are stored and an employee
\* id is set, registerBiometric produces the payload, whose registered angles
\* are exactly the stored angles.
C5_CompleteSessionYieldsPayload ==
    [][(QuickRegisterButton /\ quick.employeeId # "") =>
        /\ Len(readers') = Len(readers) + 1
        /\ readers'[Len(readers')].angles_registered = ObjectKeys(quick.capturedImages)]_vars

\* C6: removeImage removes exactly the capture of its angle and leaves every
\* other stored capture as it was; retakeAll empties the stored captures; the
\* guided flow's Recapture empties them and returns to the first angle.
C6_RetakeRemovesExactly ==
    [][/\ \A a \in ObjectKeys(quick.capturedImages) :
            (UNCHANGED <<gum, timers, blobs, readers, callbacks>> /\ QuickRemoveImage(a)) =>
            /\ ObjectKeys(quick'.capturedImages) = ObjectKeys(quick.capturedImages) \ {a}
            /\ \A b \in ObjectKeys(quick.capturedImages) \ {a} :
                    quick'.capturedImages[b] = quick.capturedImages[b]
       /\ (Len(gum') > Len(gum) /\ QuickRetakeAll) => ObjectKeys(quick'.capturedImages) = {}
       /\ BasicRecapture => (basic'.capturedImages = <<>> /\ basic'.currentAngle = 0)]_vars

\* removeImage has taken an angle out of a session while others stay stored:
\* the payload being read still lists the removed angle
C6_OneAngleRemoved ==
    /\ comp = "quick"
    /\ mounted
    /\ readers # <<>>
    /\ ObjectKeys(quick.capturedImages) # {}
    /\ ObjectKeys(quick.capturedImages) \subseteq Head(readers).angles_registered
    /\ ObjectKeys(quick.capturedImages) # Head(readers).angles_registered

\* C8: once BiometricCapture is closed or unmounted and every getUserMedia
\* request it made has been answered, no stream it acquired has running tracks.
C8_NoStreamRunsAfterClose ==
    (comp = "quick" /\ ~mounted /\ gum = <<>>) => LiveStreams = {}

\* C9: at every moment at most one stream acquired by BiometricCapture has
\* running tracks.
C9_AtMostOneRunningStream ==
    comp = "quick" => Cardinality(LiveStreams) <= 1
\* the stream the mounted component holds
AcquiredStream ==
    IF comp = "basic" THEN basic.stream
    ELSE IF comp = "adv" THEN adv.stream
    ELSE IF comp = "rt" THEN rt.stream
    ELSE quick.stream

\* C7: when BasicBiometricCapture, AdvancedBiometricCapture or
\* RealTimeFaceDetection is unmounted while it holds a stream, the unmount
\* cleanup stops the tracks of that stream.
C7_UnmountStopsAcquiredStream ==
    [][(mounted /\ ~mounted' /\ AcquiredStream # NoStream) =>
            tracks'[AcquiredStream] = "stopped"]_vars

\* C10: once AdvancedBiometricCapture's sampling interval has been cleared,
\* no frame result is applied (currentAnalysis and sessionProgress stay, no
\* completion timer is set), and after teardown onComplete is not called.
C10_NothingAppliedAfterSamplingStopped ==
    [][/\ (comp = "adv" /\ adv.processingInterval = "cleared") =>
            /\ adv'.currentAnalysis = adv.currentAnalysis
            /\ adv'.sessionProgress = adv.sessionProgress
            /\ Len(timers') <= Len(timers)
       /\ (comp = "adv" /\ ~mounted) => callbacks' = callbacks]_vars

\* the onComplete calls made so far
OnCompleteCalls == SelectSeq(callbacks, LAMBDA c : c.name = "onComplete")

\* C13: AdvancedBiometricCapture invokes onComplete at most once per session,
\* whatever the number and order of process-frame responses that report
\* session_complete.
C13_OnCompleteAtMostOnce ==
    comp = "adv" => Len(OnCompleteCalls) <= 1

\* C20: when AdvancedBiometricCapture is closed or unmounted after its session
\* id was set, the teardown issues a DELETE request for that session.
C20_TeardownDeletesSession ==
    [][(comp = "adv" /\ mounted /\ ~mounted' /\ adv.sessionId # NoSession) =>
            /\ Len(fetches') = Len(fetches) + 1
            /\ fetches'[Len(fetches')].url = "delete-session"]_vars

\* C18: completeCapture of the guided flow invokes onComplete only when the
\* registration response is OK and reports success.  On a failure response or
\* a rejected request the failure is shown, onComplete is not invoked, no
\* request is sent again, the stored captures stay as they are and isCapturing
\* is reset to false.
C18_FailureLeavesSessionAsItWas ==
    [][/\ (comp = "basic" /\ callbacks' # callbacks) =>
                \E i \in 1..Len(fetches) : BasicCompleteCaptureDone(i, "ok")
       /\ \A i \in 1..Len(fetches), o \in {"failed", "rejected"} :
            BasicCompleteCaptureDone(i, o) =>
                /\ basic'.alert = "failed"
                /\ callbacks' = callbacks
                /\ fetches' = RemoveAt(fetches, i)
                /\ requests' = requests
                /\ timers' = timers
                /\ basic'.capturedImages = basic.capturedImages
                /\ mounted' = mounted
                /\ mounted => ~basic'.isCapturing]_vars

\* a registration of five stored captures has failed: the failure is shown,
\* the component is still there with its captures and nothing is in flight
C18_RegistrationFailed ==
    /\ comp = "basic"
    /\ mounted
    /\ basic.alert = "failed"
    /\ ~basic.isCapturing
    /\ Len(basic.capturedImages) = 5
    /\ fetches = <<>>
    /\ callbacks = <<>>

\* C14: the 5 s timer of BiometricCapture raises the 'Camera timeout' error
\* only if at that moment no stream has been acquired and no camera error is
\* shown; when the device has answered before, the timeout error is not raised.
C14_TimeoutOnlyWithoutStreamOrError ==
    [][\A i \in 1..Len(timers) :
        (QuickCameraTimeout(i)
            /\ quick'.cameraError = "Camera timeout. Click Start Camera to try again.") =>
                /\ quick.stream = NoStream
                /\ quick.cameraError = "null"]_vars

\* C19: once a capture brings the stored angles of BiometricCapture to 5, the
\* camera is stopped without a further user action: the tracks of the stream
\* held at that moment are stopped and the component holds no stream (stream
\* null, video not ready).  The model shows it of the very step that stores
\* the fifth angle, which is stronger than "eventually".
C19_FifthCaptureStopsCamera ==
    [][(comp = "quick" /\ QuickCount < 5 /\ QuickCount' = 5) =>
            /\ quick'.stream = NoStream
            /\ ~quick'.isVideoReady
            /\ quick.stream # NoStream => tracks'[quick.stream] # "live"]_vars

\* the fifth angle has just been stored (its 500 ms timer is still pending)
\* and the component holds no stream
C19_FiveStoredCameraStopped ==
    /\ comp = "quick"
    /\ mounted
    /\ QuickCount = 5
    /\ quick.stream = NoStream
    /\ ~quick.isVideoReady
    /\ \E i \in 1..Len(timers) : timers[i].kind = "autoStop"

\* the camera error the mounted component shows to the user: cameraError of
\* BiometricCapture, the error message startCamera of AdvancedBiometricCapture
\* adds; BasicBiometricCapture and RealTimeFaceDetection have no state for it
\* (their catch blocks only call console.error)
CameraErrorShown ==
    IF comp = "quick" THEN quick.cameraError # "null"
    ELSE IF comp = "adv" THEN adv.message = "camera error"
    ELSE FALSE

\* C15: when a getUserMedia request is rejected, the capture component ends
\* in a state that shows an error to the user, holds no stream, and has made
\* no new camera request of its own.
C15_RejectionShowsErrorAndStops ==
    [][\A i \in 1..Len(gum) :
        (\/ BasicStartCameraRejected(i)
         \/ AdvStartCameraRejected(i)
         \/ RtStartCameraRejected(i)) =>
            /\ Len(gum') < Len(gum)
            /\ AcquiredStream' = NoStream
            /\ mounted => CameraErrorShown']_vars

C11_RetryInterruptsRunInFlight ==
    [][\A k \in 1..Len(runs) :
        runs[k].retried =>
            /\ RtCapturePushed(k) => rt'.captureCount = rt.captureCount
            /\ \A l \in LivenessScores :
                RtComprehensiveAnalysisDone(k, l) =>
                    /\ rt'.analysisResults = rt.analysisResults
                    /\ callbacks' = callbacks]_vars

\* C12: at most one capture-and-analysis run of RealTimeFaceDetection is in
\* flight at any time (capture loop or 3 s analysis), retryCapture included.
C12_AtMostOneRunInFlight ==
    comp = "rt" => Len(runs) <= 1

\* C16: every capture pushed by captureSmartphoneLikeFaces is of a frame in
\* which, when it was taken, a face was detected with quality >= 40 and
\* confidence >= 0.7.
C16_StoredFrameClearsThresholds ==
    [][\A k \in 1..Len(runs) :
        RtCapturePushed(k) =>
            ~BelowThresholds(runs[k].image.detected, runs[k].image.quality,
                             runs[k].image.confidence)]_vars

\* the process-frame requests in flight
FramesInFlight == SelectSeq(fetches, LAMBDA f : f.url = "process-frame")

\* C23: at most one process-frame request of AdvancedBiometricCapture is in
\* flight at any time: a tick of the sampling interval that fires while a
\* frame is still being processed starts no second request.
C23_AtMostOneFrameInFlight ==
    comp = "adv" => Len(FramesInFlight) <= 1

\* C24: a capture of BiometricCapture that leaves fewer than 5 angles stored
\* does not stop the camera: the stream held before the capture is still held
\* after it, with running tracks.
C24_CaptureBelowFiveKeepsCamera ==
    [][(/\ comp = "quick"
        /\ mounted
        /\ quick.stream # NoStream
        /\ tracks[quick.stream] = "live"
        /\ quick'.capturedImages # quick.capturedImages
        /\ QuickCount' < 5
        /\ QuickBlobReady(TRUE)) =>
            /\ quick'.stream = quick.stream
            /\ tracks'[quick.stream] = "live"]_vars

(* --------------------- BiometricCapture: blob URLs ----------------------- *)
\* mount of BiometricCapture in a run that records the blob URLs, for an
\* employee the parent has selected
InitQuickUrls ==
    /\ comp = "quick"
    /\ mounted = TRUE
    /\ tracks = [s \in Streams |-> "unborn"]
    /\ gum = <<GumRequest("default")>>
    /\ timers = <<[kind |-> "cameraTimeout", delay |-> 5000,
                   stream |-> NoStream, cameraError |-> "null"]>>
    /\ fetches = <<>>
    /\ requests = {}
    /\ callbacks = <<>>
    /\ basic = BasicInitState
    /\ quick = [QuickInitState EXCEPT !.employeeId = "emp1"]
    /\ blobs = <<>>
    /\ urls = [u \in Urls |-> "unborn"]
    /\ observeUrls = TRUE
    /\ readers = <<>>
    /\ adv = AdvInitState
    /\ rt = RtInitState
    /\ runs = <<>>
    /\ dash = DashInitState
    /\ clips = ClipsInitState
    /\ att = AttInitState
    /\ api = ApiInitState

\* the angle boxes the user clicks in these runs
UrlAngles == {"Center", "Left"}

\* the quick flow of a user who captures, retakes and removes these angles
NextQuickUrls ==
    \/ \E i \in 1..Len(gum) : GumGranted(i)
    \/ QuickStartCameraButton
    \/ \E i \in 1..Len(gum) : QuickStartCameraResolved(i)
    \/ QuickVideoPlaying
    \/ \E i \in 1..Len(timers) : QuickCameraTimeout(i)
    \/ \E a \in UrlAngles, v \in Videos : QuickCaptureImage(a, v)
    \/ \E ok \in BOOLEAN : QuickBlobReady(ok)
    \/ \E a \in UrlAngles : QuickRemoveImage(a)
    \/ QuickRetakeAll
    \/ QuickHandleClose
    \/ QuickUnmount

SpecQuickUrls == InitQuickUrls /\ [][NextQuickUrls]_vars

\* C25: the blob URL of a capture of BiometricCapture is revoked exactly when
\* the capture is discarded; in particular, while the view is open the URL of
\* a capture that is still stored is never revoked.
C25_StoredCaptureUrlIsLive ==
    (comp = "quick" /\ mounted) =>
        \A a \in ObjectKeys(quick.capturedImages) :
            quick.capturedImages[a].url \in Urls =>
                urls[quick.capturedImages[a].url] = "live"

(* ---------------------------- MainDashboard --------------------------- *)
\* requests of MainDashboard allowed in flight at once
MaxDashRequests == 3
\* pending 500 ms reload timers of MainDashboard allowed at once
MaxReloadTimers == 1

\* the variables MainDashboard never touches
notDash == <<mounted, tracks, gum, timers, fetches, requests, callbacks,
             basic, quick, blobs, urls, observeUrls, readers, adv, rt, runs, clips, att, api>>

\* what GET /api/cameras/ can answer: any list of known cameras, each with
\* its is_active flag
CameraLists == UNION {[S -> BOOLEAN] : S \in SUBSET Cameras}

\* the array `seq` without its element at index i
DashWithout(seq, i) == SubSeq(seq, 1, i - 1) \o SubSeq(seq, i + 1, Len(seq))

\* fetch(...): one more request in flight
DashFetch(d, url, camera) ==
    [d EXCEPT !.requests = Append(@, [url |-> url, camera |-> camera])]

\* the requests for `url` of camera `c` in flight
DashInFlight(url, c) ==
    {i \in DOMAIN dash.requests :
        dash.requests[i].url = url /\ dash.requests[i].camera = c}

InitDash ==
    /\ comp = "dash"
    /\ mounted = TRUE
    /\ tracks = [s \in Streams |-> "unborn"]
    /\ gum = <<>>
    /\ timers = <<>>
    /\ fetches = <<>>
    /\ requests = {}
    /\ callbacks = <<>>
    /\ basic = BasicInitState
    /\ quick = QuickInitState
    /\ blobs = <<>>
    /\ urls = [u \in Urls |-> "unborn"]
    /\ observeUrls = FALSE
    /\ readers = <<>>
    /\ adv = AdvInitState
    /\ rt = RtInitState
    /\ runs = <<>>
    /\ dash = DashInitState
    /\ clips = ClipsInitState
    /\ att = AttInitState
    /\ api = ApiInitState

\* the tab buttons: setActiveTab(tab); the [activeTab] effect loads the
\* camera list when the tab becomes 'cameras'
DashSetActiveTab(tab) ==
    /\ comp = "dash"
    /\ tab # dash.activeTab
    /\ IF tab = "cameras"
         THEN /\ Len(dash.requests) < MaxDashRequests
              /\ dash' = DashFetch([dash EXCEPT !.activeTab = tab], "cameras", "none")
         ELSE dash' = [dash EXCEPT !.activeTab = tab]
    /\ UNCHANGED <<comp, notDash>>

\* loadDashboardData: the response of GET /api/dashboard/stats
DashStatsResponse(i, ok) ==
    /\ comp = "dash"
    /\ i \in DOMAIN dash.requests
    /\ dash.requests[i].url = "stats"
    /\ dash' = [dash EXCEPT !.requests = DashWithout(@, i),
                            !.stats = IF ok THEN "loaded" ELSE "zero"]
    /\ UNCHANGED <<comp, notDash>>

\* loadCameras: the response of GET /api/cameras/ replaces the camera list
\* and the whole cameraStates map
DashLoadCamerasResponse(i, data) ==
    /\ comp = "dash"
    /\ i \in DOMAIN dash.requests
    /\ dash.requests[i].url = "cameras"
    /\ dash' = [dash EXCEPT
           !.requests = DashWithout(@, i),
           !.cameras = DOMAIN data,
           !.cameraStates = [c \in Cameras |->
               IF c \in DOMAIN data
                 THEN (IF data[c] THEN "active" ELSE "stopped")
                 ELSE "undefined"]]
    /\ UNCHANGED <<comp, notDash>>

\* loadCameras: the request failed
DashLoadCamerasFailed(i) ==
    /\ comp = "dash"
    /\ i \in DOMAIN dash.requests
    /\ dash.requests[i].url = "cameras"
    /\ dash' = [dash EXCEPT
           !.requests = DashWithout(@, i),
           !.cameras = {},
           !.cameraStates = [c \in Cameras |-> "undefined"]]
    /\ UNCHANGED <<comp, notDash>>

\* the Start button of a camera card: shown while the state is not 'active',
\* disabled only while it is 'starting'
StartButtonEnabled(c) ==
    /\ dash.activeTab = "cameras"
    /\ c \in dash.cameras
    /\ dash.cameraStates[c] # "active"
    /\ dash.cameraStates[c] # "starting"

\* the Stop button of a camera card: shown while the state is 'active',
\* disabled while it is 'stopping' (which it never is while shown)
StopButtonEnabled(c) ==
    /\ dash.activeTab = "cameras"
    /\ c \in dash.cameras
    /\ dash.cameraStates[c] = "active"
    /\ dash.cameraStates[c] # "stopping"

\* startCameraMonitoring(cameraId), up to its await
DashStartCameraMonitoring(c) ==
    /\ comp = "dash"
    /\ StartButtonEnabled(c)
    /\ Len(dash.requests) < MaxDashRequests
    /\ dash' = DashFetch([dash EXCEPT !.cameraStates[c] = "starting"], "start", c)
    /\ UNCHANGED <<comp, notDash>>

\* startCameraMonitoring after its await: outcome is "success" (data.success),
\* "refused" (a response without success) or "error" (the request threw)
DashStartResponse(i, outcome) ==
    /\ comp = "dash"
    /\ i \in DOMAIN dash.requests
    /\ dash.requests[i].url = "start"
    /\ LET c == dash.requests[i].camera
           d == [dash EXCEPT !.requests = DashWithout(@, i)]
       IN  IF outcome = "success"
             THEN /\ dash.reloadTimers < MaxReloadTimers
                  /\ dash' = DashFetch([d EXCEPT !.cameraStates[c] = "active",
                                                 !.reloadTimers = @ + 1],
                                       "stats", "none")
             ELSE dash' = [d EXCEPT !.cameraStates[c] = "error"]
    /\ UNCHANGED <<comp, notDash>>

\* setTimeout(() => loadCameras(), 500) fires
DashReloadTimer ==
    /\ comp = "dash"
    /\ dash.reloadTimers > 0
    /\ Len(dash.requests) < MaxDashRequests
    /\ dash' = DashFetch([dash EXCEPT !.reloadTimers = @ - 1], "cameras", "none")
    /\ UNCHANGED <<comp, notDash>>

\* stopCameraMonitoring(cameraId), up to its await
DashStopCameraMonitoring(c) ==
    /\ comp = "dash"
    /\ StopButtonEnabled(c)
    /\ Len(dash.requests) < MaxDashRequests
    /\ dash' = DashFetch([dash EXCEPT !.cameraStates[c] = "stopping"], "stop", c)
    /\ UNCHANGED <<comp, notDash>>

\* stopCameraMonitoring after its await
DashStopResponse(i, outcome) ==
    /\ comp = "dash"
    /\ i \in DOMAIN dash.requests
    /\ dash.requests[i].url = "stop"
    /\ LET c == dash.requests[i].camera
           d == [dash EXCEPT !.requests = DashWithout(@, i)]
       IN  IF outcome = "success"
             THEN dash' = DashFetch([d EXCEPT !.cameraStates[c] = "stopped"],
                                    "stats", "none")
             ELSE dash' = [d EXCEPT !.cameraStates[c] = "error"]
    /\ UNCHANGED <<comp, notDash>>

\* what the server can answer to a start or stop request
Outcomes == {"success", "refused", "error"}

NextDash ==
    \/ \E tab \in {"dashboard", "cameras"} : DashSetActiveTab(tab)
    \/ \E i \in 1..MaxDashRequests, ok \in BOOLEAN : DashStatsResponse(i, ok)
    \/ \E i \in 1..MaxDashRequests, data \in CameraLists : DashLoadCamerasResponse(i, data)
    \/ \E i \in 1..MaxDashRequests : DashLoadCamerasFailed(i)
    \/ \E c \in Cameras : DashStartCameraMonitoring(c)
    \/ \E i \in 1..MaxDashRequests, o \in Outcomes : DashStartResponse(i, o)
    \/ DashReloadTimer
    \/ \E c \in Cameras : DashStopCameraMonitoring(c)
    \/ \E i \in 1..MaxDashRequests, o \in Outcomes : DashStopResponse(i, o)

SpecDash == InitDash /\ [][NextDash]_vars

\* C26: while a start (stop) request for a camera is in flight, the camera's
\* state is 'starting' ('stopping'): nothing but the request's own response
\* changes it
C26_StateKeptWhileRequestInFlight ==
    comp = "dash" =>
        \A c \in Cameras :
            /\ DashInFlight("start", c) # {} => dash.cameraStates[c] = "starting"
            /\ DashInFlight("stop", c) # {} => dash.cameraStates[c] = "stopping"

\* C27: a camera never has more than one start or stop request in flight
C27_OneRequestPerCamera ==
    comp = "dash" =>
        \A c \in Cameras :
            Cardinality(DashInFlight("start", c) \cup DashInFlight("stop", c)) <= 1

(* ---------------------------- SecurityClips --------------------------- *)
\* AI requests of SecurityClips allowed in flight at once
MaxClipRequests == 3

\* the variables SecurityClips never touches
notClips == <<mounted, tracks, gum, timers, fetches, requests, callbacks,
              basic, quick, blobs, urls, observeUrls, readers, adv, rt, runs, dash, att, api>>

\* the AI actions of the clip viewer, named by the marker their handler
\* stores in `processing`
ClipActions == {"summary", "highlights", "indexing"}

InitClips ==
    /\ comp = "clips"
    /\ mounted = TRUE
    /\ tracks = [s \in Streams |-> "unborn"]
    /\ gum = <<>>
    /\ timers = <<>>
    /\ fetches = <<>>
    /\ requests = {}
    /\ callbacks = <<>>
    /\ basic = BasicInitState
    /\ quick = QuickInitState
    /\ blobs = <<>>
    /\ urls = [u \in Urls |-> "unborn"]
    /\ observeUrls = FALSE
    /\ readers = <<>>
    /\ adv = AdvInitState
    /\ rt = RtInitState
    /\ runs = <<>>
    /\ dash = DashInitState
    /\ clips = ClipsInitState
    /\ att = AttInitState
    /\ api = ApiInitState

\* fetchClips after its await: the list is stored on success; `finally`
\* clears the loading flag
ClipsFetchClipsDone(ok) ==
    /\ comp = "clips"
    /\ clips.loading
    /\ clips' = [clips EXCEPT !.loading = FALSE,
                              !.clips = IF ok THEN Clips ELSE @]
    /\ UNCHANGED <<comp, notClips>>

\* a clip card is clicked (setSelectedClip(clip)) or the viewer is closed
\* (setSelectedClip(null))
ClipsSetSelectedClip(v) ==
    /\ comp = "clips"
    /\ v # clips.selectedClip
    /\ v \in clips.clips \cup {"null"}
    /\ clips' = [clips EXCEPT !.selectedClip = v]
    /\ UNCHANGED <<comp, notClips>>

\* the button of an AI action in the viewer of the selected clip: disabled
\* while the clip's marker is that action's
ClipButtonEnabled(v, action) ==
    /\ clips.selectedClip = v
    /\ clips.processing[v] # action

\* generateSummary, extractHighlights, generateSceneIndex up to their await
ClipsStartAction(v, action) ==
    /\ comp = "clips"
    /\ ClipButtonEnabled(v, action)
    /\ Len(clips.requests) < MaxClipRequests
    /\ clips' = [clips EXCEPT
           !.processing[v] = action,
           !.requests = Append(@, [clip |-> v, action |-> action])]
    /\ UNCHANGED <<comp, notClips>>

\* the same handlers after their await: the result is stored on success
\* (summary, highlights), and `finally` sets the clip's marker to null
ClipsActionDone(i, ok) ==
    /\ comp = "clips"
    /\ i \in DOMAIN clips.requests
    /\ LET r == clips.requests[i]
           c == [clips EXCEPT !.requests = DashWithout(@, i),
                              !.processing[r.clip] = "null"]
       IN  clips' =
             IF ok /\ r.action = "summary"
               THEN [c EXCEPT !.clipSummary = r.clip]
             ELSE IF ok /\ r.action = "highlights"
               THEN [c EXCEPT !.highlightsUrl = r.clip]
             ELSE c
    /\ UNCHANGED <<comp, notClips>>

NextClips ==
    \/ \E ok \in BOOLEAN : ClipsFetchClipsDone(ok)
    \/ \E v \in Clips \cup {"null"} : ClipsSetSelectedClip(v)
    \/ \E v \in Clips, a \in ClipActions : ClipsStartAction(v, a)
    \/ \E i \in 1..MaxClipRequests, ok \in BOOLEAN : ClipsActionDone(i, ok)

SpecClips == InitClips /\ [][NextClips]_vars

\* C28: while a request of an AI action for a clip is in flight, the clip is
\* marked as processing that action (so the action's button is disabled)
C28_MarkedWhileRequestInFlight ==
    comp = "clips" =>
        \A i \in DOMAIN clips.requests :
            clips.processing[clips.requests[i].clip] = clips.requests[i].action

(* ------------------------------ Attendance ---------------------------- *)
\* requests of the Attendance page allowed in flight at once
MaxAttRequests == 4

\* the variables the Attendance page never touches
notAtt == <<mounted, tracks, gum, timers, fetches, requests, callbacks,
            basic, quick, blobs, urls, observeUrls, readers, adv, rt, runs,
            dash, clips, api>>

InitAtt ==
    /\ comp = "att"
    /\ mounted = TRUE
    /\ tracks = [s \in Streams |-> "unborn"]
    /\ gum = <<>>
    /\ timers = <<>>
    /\ fetches = <<>>
    /\ requests = {}
    /\ callbacks = <<>>
    /\ basic = BasicInitState
    /\ quick = QuickInitState
    /\ blobs = <<>>
    /\ urls = [u \in Urls |-> "unborn"]
    /\ observeUrls = FALSE
    /\ readers = <<>>
    /\ adv = AdvInitState
    /\ rt = RtInitState
    /\ runs = <<>>
    /\ dash = DashInitState
    /\ clips = ClipsInitState
    /\ \E m \in Months, y \in Years :
           att = [AttInitState EXCEPT !.selectedMonth = m, !.selectedYear = y]
    /\ api = ApiInitState

\* the [selectedEmployee, selectedMonth, selectedYear] effect of the render
\* with state `a`: with an employee selected it calls loadEmployeeData and
\* loadMonthlyAttendance, which send their requests with that render's values
AttSelectionEffect(a) ==
    IF a.selectedEmployee = "null"
      THEN a
      ELSE [a EXCEPT !.requests = @ \o
             <<[url |-> "employees", employee |-> a.selectedEmployee,
                year |-> 0, month |-> 0],
               [url |-> "month", employee |-> a.selectedEmployee,
                year |-> a.selectedYear, month |-> a.selectedMonth]>>]

\* room for the two requests the effect of the render with state `a` sends
AttRoom(a) ==
    a.selectedEmployee = "null" \/ Len(a.requests) + 2 <= MaxAttRequests

\* loadTodayAttendance after its await
AttTodayResponse(i, ok) ==
    /\ comp = "att"
    /\ i \in DOMAIN att.requests
    /\ att.requests[i].url = "today"
    /\ att' = [att EXCEPT !.requests = DashWithout(@, i),
                          !.todayAttendance = IF ok THEN Employees ELSE @]
    /\ UNCHANGED <<comp, notAtt>>

\* a row of today's list is clicked: setSelectedEmployee(att.employee_id)
AttSetSelectedEmployee(e) ==
    /\ comp = "att"
    /\ e \in att.todayAttendance
    /\ e # att.selectedEmployee
    /\ AttRoom([att EXCEPT !.selectedEmployee = e])
    /\ att' = AttSelectionEffect([att EXCEPT !.selectedEmployee = e])
    /\ UNCHANGED <<comp, notAtt>>

\* the month selector: setSelectedMonth(Number(e.target.value))
AttSetSelectedMonth(m) ==
    /\ comp = "att"
    /\ m # att.selectedMonth
    /\ AttRoom([att EXCEPT !.selectedMonth = m])
    /\ att' = AttSelectionEffect([att EXCEPT !.selectedMonth = m])
    /\ UNCHANGED <<comp, notAtt>>

\* the year selector: setSelectedYear(Number(e.target.value))
AttSetSelectedYear(y) ==
    /\ comp = "att"
    /\ y # att.selectedYear
    /\ AttRoom([att EXCEPT !.selectedYear = y])
    /\ att' = AttSelectionEffect([att EXCEPT !.selectedYear = y])
    /\ UNCHANGED <<comp, notAtt>>

\* loadEmployeeData after its await: the employee of the calling render is
\* looked up in the answered list
AttEmployeeDataResponse(i, ok) ==
    /\ comp = "att"
    /\ i \in DOMAIN att.requests
    /\ att.requests[i].url = "employees"
    /\ att' = [att EXCEPT
           !.requests = DashWithout(@, i),
           !.selectedEmployeeData = IF ok THEN att.requests[i].employee ELSE @]
    /\ UNCHANGED <<comp, notAtt>>

\* loadMonthlyAttendance after its await: setMonthlyData(data) on success,
\* a console message on failure
AttLoadMonthlyAttendanceDone(i, ok) ==
    /\ comp = "att"
    /\ i \in DOMAIN att.requests
    /\ att.requests[i].url = "month"
    /\ LET r == att.requests[i]
       IN  att' = [att EXCEPT
               !.requests = DashWithout(@, i),
               !.monthlyData = IF ok THEN MonthSheet(r.employee, r.year, r.month)
                                     ELSE @,
               !.monthlyFailed = @ \/ ~ok]
    /\ UNCHANGED <<comp, notAtt>>

NextAtt ==
    \/ \E i \in 1..MaxAttRequests, ok \in BOOLEAN : AttTodayResponse(i, ok)
    \/ \E e \in Employees : AttSetSelectedEmployee(e)
    \/ \E m \in Months : AttSetSelectedMonth(m)
    \/ \E y \in Years : AttSetSelectedYear(y)
    \/ \E i \in 1..MaxAttRequests, ok \in BOOLEAN : AttEmployeeDataResponse(i, ok)
    \/ \E i \in 1..MaxAttRequests, ok \in BOOLEAN : AttLoadMonthlyAttendanceDone(i, ok)

SpecAtt == InitAtt /\ [][NextAtt]_vars

\* C29: with an employee selected, no request in flight and no monthly
\* request failed, monthlyData is the sheet of the selected employee, month
\* and year
C29_SettledMonthlyDataIsSelection ==
    (/\ comp = "att"
     /\ att.selectedEmployee # "null"
     /\ att.requests = <<>>
     /\ ~att.monthlyFailed) =>
        att.monthlyData =
            MonthSheet(att.selectedEmployee, att.selectedYear, att.selectedMonth)

(* ------------------------- image analysis functions ------------------- *)
\* Scores are kept in thousandths and grey levels in tenths, rounded down.

\* calls of the analysis functions recorded in one run
MaxEvals == 2

\* the variables the analysis functions never touch
notApi == <<mounted, tracks, gum, timers, fetches, requests, callbacks,
            basic, quick, blobs, urls, observeUrls, readers, adv, rt, runs,
            dash, clips, att>>

\* the RGBA bytes of a pixel of each colour
Pixel(color) ==
    IF color = "skin" THEN [r |-> 210, g |-> 150, b |-> 120]
                      ELSE [r |-> 20, g |-> 20, b |-> 20]

Max2(a, b) == IF a >= b THEN a ELSE b
Min2(a, b) == IF a <= b THEN a ELSE b
Abs(a) == IF a >= 0 THEN a ELSE -a

RECURSIVE SqrtBetween(_, _, _)
SqrtBetween(n, lo, hi) ==
    IF lo = hi THEN lo
    ELSE LET mid == (lo + hi + 1) \div 2
         IN  IF mid * mid <= n THEN SqrtBetween(n, mid, hi)
                               ELSE SqrtBetween(n, lo, mid - 1)
\* Math.sqrt, rounded down
Sqrt(n) == SqrtBetween(n, 0, 46340)

RECURSIVE SumOver(_, _)
\* the sum of f[i] over the indexes of the set S
SumOver(f, S) ==
    IF S = {} THEN 0
    ELSE LET i == CHOOSE j \in S : TRUE
         IN  f[i] + SumOver(f, S \ {i})

\* the red byte of the pixel at column x, row y
Red(image, x, y) == Pixel(image[y * ImageWidth + x + 1]).r

\* calculateSharpness: the mean Sobel magnitude of the red bytes over the
\* inner pixels, in tenths
CalculateSharpness(image) ==
    LET inner == {<<x, y>> \in (1..(ImageWidth - 2)) \X (1..(ImageHeight - 2)) : TRUE}
        gx(x, y) == (-Red(image, x - 1, y - 1)) + Red(image, x + 1, y - 1)
                    - 2 * Red(image, x - 1, y) + 2 * Red(image, x + 1, y)
                    - Red(image, x - 1, y + 1) + Red(image, x + 1, y + 1)
        gy(x, y) == (-Red(image, x - 1, y - 1)) - 2 * Red(image, x, y - 1)
                    - Red(image, x + 1, y - 1) + Red(image, x - 1, y + 1)
                    + 2 * Red(image, x, y + 1) + Red(image, x + 1, y + 1)
        magnitude == [p \in inner |->
            Sqrt((gx(p[1], p[2]) * gx(p[1], p[2]) + gy(p[1], p[2]) * gy(p[1], p[2])) * 100)]
    IN  SumOver(magnitude, inner) \div ((ImageWidth - 2) * (ImageHeight - 2))

\* extractBiometricData with brightness shifted by the clock: not the code
ExtractBiometricDataStamped(image, now) ==
    [brightness |-> now, contrast |-> 0,
     sharpness |-> CalculateSharpness(image), timestamp |-> now]

\* extractBiometricData(canvas, ctx): mean luminance, its standard deviation
\* and the sharpness of the frame, stamped with Date.now()
ExtractBiometricData(image, now) ==
    LET n == ImageWidth * ImageHeight
        luminance == [i \in PixelIndexes |->
            (299 * Pixel(image[i]).r + 587 * Pixel(image[i]).g
                + 114 * Pixel(image[i]).b) \div 100]
        avgBrightness == SumOver(luminance, PixelIndexes) \div n
        squares == [i \in PixelIndexes |->
            (luminance[i] - avgBrightness) * (luminance[i] - avgBrightness)]
    IN  [brightness |-> avgBrightness,
         contrast |-> Sqrt(SumOver(squares, PixelIndexes) \div n),
         sharpness |-> CalculateSharpness(image),
         timestamp |-> now]

\* calculateImageQuality(imageData)
CalculateImageQuality(image) ==
    LET n == ImageWidth * ImageHeight
        pixelBrightness == [i \in PixelIndexes |->
            (Pixel(image[i]).r + Pixel(image[i]).g + Pixel(image[i]).b) \div 3]
        total == SumOver(pixelBrightness, PixelIndexes)
        brightness == (total * 1000) \div (n * 255)
        \* (pixelBrightness - mean)^2, times n^2
        squares == [i \in PixelIndexes |->
            (n * pixelBrightness[i] - total) * (n * pixelBrightness[i] - total)]
        \* the standard deviation in tenths of a grey level
        deviation == Sqrt((SumOver(squares, PixelIndexes) \div (n * n * n)) * 100)
        contrast == (deviation * 100) \div 128
        sharpness == Min2(contrast * 2, 1000)
        brightnessScore == 1000 - Abs(brightness - 550) * 2
    IN  [brightness |-> Max2(0, brightnessScore),
         contrast |-> Min2(contrast, 1000),
         sharpness |-> sharpness,
         overall |-> (Max2(0, brightnessScore) + Min2(contrast, 1000) + sharpness) \div 3]

\* the skin test of detectFaceBasic
IsFacePixel(p) ==
    /\ p.r > 95 /\ p.g > 40 /\ p.b > 20
    /\ Max2(p.r, Max2(p.g, p.b)) - Min2(p.r, Min2(p.g, p.b)) > 15
    /\ Abs(p.r - p.g) > 15 /\ p.r > p.g /\ p.r > p.b

\* detectFaceBasic(canvas): faceRatio = facePixels / pixels; detected above
\* 0.02, quality min(ratio * 50, 100), confidence ratio * 10
DetectFaceBasic(image) ==
    LET n == ImageWidth * ImageHeight
        facePixels == Cardinality({i \in PixelIndexes : IsFacePixel(Pixel(image[i]))})
    IN  [detected |-> facePixels * 100 > 2 * n,
         quality |-> Min2((facePixels * 50 * 1000) \div n, 100000),
         confidence |-> (facePixels * 10 * 1000) \div n]

\* detectFaceLocal: the weighted score of the four detectors
DetectFaceLocal(scores) ==
    LET combinedScore == (scores.skin * 25 + scores.facial * 35
                          + scores.edges * 25 + scores.symmetry * 15) \div 100
    IN  [detected |-> combinedScore > 600, confidence |-> combinedScore,
         combinedResults |-> FALSE, error |-> FALSE]

\* detectFaceBackup
DetectFaceBackup ==
    [detected |-> TRUE, confidence |-> 600, combinedResults |-> FALSE, error |-> FALSE]

\* fallbackDetection
FallbackDetection ==
    [detected |-> FALSE, confidence |-> 0, combinedResults |-> FALSE, error |-> TRUE]

\* combineFaceResults(results): the first result that detected a face, with
\* the mean confidence of those that did; results[0] when none did
CombineFaceResults(results) ==
    LET validResults == SelectSeq(results, LAMBDA r : r.detected)
        confidences == [i \in DOMAIN validResults |-> validResults[i].confidence]
    IN  IF Len(validResults) = 0 THEN results[1]
        ELSE [validResults[1] EXCEPT
                !.confidence = SumOver(confidences, DOMAIN validResults)
                                   \div Len(validResults),
                !.combinedResults = TRUE]

\* detectFaceAdvanced(imageData); `throws` is a local detection that threw
DetectFaceAdvanced(scores, throws) ==
    IF throws THEN FallbackDetection
    ELSE LET localResult == DetectFaceLocal(scores)
         IN  IF localResult.confidence < 800
               THEN CombineFaceResults(<<localResult, DetectFaceBackup>>)
               ELSE localResult

\* the values Date.now() takes in a run
Clock == {1, 2}

InitApi ==
    /\ comp = "api"
    /\ mounted = TRUE
    /\ tracks = [s \in Streams |-> "unborn"]
    /\ gum = <<>>
    /\ timers = <<>>
    /\ fetches = <<>>
    /\ requests = {}
    /\ callbacks = <<>>
    /\ basic = BasicInitState
    /\ quick = QuickInitState
    /\ blobs = <<>>
    /\ urls = [u \in Urls |-> "unborn"]
    /\ observeUrls = FALSE
    /\ readers = <<>>
    /\ adv = AdvInitState
    /\ rt = RtInitState
    /\ runs = <<>>
    /\ dash = DashInitState
    /\ clips = ClipsInitState
    /\ att = AttInitState
    /\ \E image \in Images, scores \in LocalScores :
           api = [image |-> image, scores |-> scores, evals |-> <<>>]

\* one more call recorded
ApiRecord(fn, result) ==
    /\ comp = "api"
    /\ Len(api.evals) < MaxEvals
    /\ api' = [api EXCEPT !.evals = Append(@, [fn |-> fn, result |-> result])]
    /\ UNCHANGED <<comp, notApi>>

\* BasicBiometricCapture analyses the frame at time `now`
ApiExtractBiometricData(now) ==
    ApiRecord("extractBiometricData", ExtractBiometricData(api.image, now))

\* FaceRecognitionAPI.calculateImageQuality on the frame
ApiCalculateImageQuality ==
    ApiRecord("calculateImageQuality", CalculateImageQuality(api.image))

\* RealTimeFaceDetection.detectFaceBasic on the frame
ApiDetectFaceBasic ==
    ApiRecord("detectFaceBasic", DetectFaceBasic(api.image))

\* FaceRecognitionAPI.detectFaceAdvanced on the photo
ApiDetectFaceAdvanced(throws) ==
    ApiRecord("detectFaceAdvanced", DetectFaceAdvanced(api.scores, throws))

NextApi ==
    \/ \E now \in Clock : ApiExtractBiometricData(now)
    \/ ApiCalculateImageQuality
    \/ ApiDetectFaceBasic
    \/ \E throws \in BOOLEAN : ApiDetectFaceAdvanced(throws)

SpecApi == InitApi /\ [][NextApi]_vars

\* the calls of `fn` recorded
EvalsOf(fn) == {i \in DOMAIN api.evals : api.evals[i].fn = fn}

\* a score in thousandths that lies in [0, 1]
InUnit(x) == 0 <= x /\ x <= 1000

\* C30: detectFaceAdvanced reports a face only when the local detection
\* itself detected one (weighted score above 0.6)
C30_DetectedOnlyWhenLocalDetected ==
    comp = "api" =>
        \A i \in EvalsOf("detectFaceAdvanced") :
            api.evals[i].result.detected => DetectFaceLocal(api.scores).detected

\* C22: every confidence and every quality sub-score lies in [0, 1]
C22_ScoresInUnitInterval ==
    comp = "api" =>
        /\ \A i \in EvalsOf("detectFaceAdvanced") : InUnit(api.evals[i].result.confidence)
        /\ InUnit(DetectFaceLocal(api.scores).confidence)
        /\ InUnit(DetectFaceBackup.confidence)
        /\ InUnit(FallbackDetection.confidence)
        /\ \A i \in EvalsOf("calculateImageQuality") :
               /\ InUnit(api.evals[i].result.brightness)
               /\ InUnit(api.evals[i].result.contrast)
               /\ InUnit(api.evals[i].result.sharpness)
               /\ InUnit(api.evals[i].result.overall)
        /\ \A i \in EvalsOf("detectFaceBasic") : InUnit(api.evals[i].result.confidence)

====
